---------------------------- MODULE Spec2Model ----------------------------
(***************************************************************************)
(* The Hugging Face RAG index pipeline: the card fetcher                   *)
(* (scripts/hf_fetch_model_cards.py), the index builder                    *)
(* (scripts/build_hf_rag_index.py) and the missing-cards reprocessor       *)
(* (scripts/process_missing_cards.py) working on one Postgres store        *)
(* (hf.models, hf.model_cards, hf.card_canon, hf.model_to_card,            *)
(* hf.card_chunks).                                                        *)
(*                                                                         *)
(* A text is a sequence of atoms.  An atom is one character ("a", "b",     *)
(* " ", "#", LF, CR) or one whole word that the code treats as a unit (a   *)
(* section keyword such as "usage", the tokenizer's special token, the     *)
(* fetcher's sentinel text).                                               *)
(***************************************************************************)
EXTENDS Integers, Sequences, FiniteSets, TLC

LF == "LF"                       \* the line feed character '\n'
CR == "CR"                       \* the carriage return character '\r'
SP == " "
EOT == "<|endoftext|>"           \* a special token of cl100k_base
NULL == "NULL"                   \* SQL NULL / Python None

-----------------------------------------------------------------------------
(* Python string primitives on texts *)

IsSpace(c) == c \in {SP, LF, CR}

\* atoms that are a word with the space before it, as the tokenizer cuts them
SpaceWords == {" a", " model", " card", " found"}

Rep(s, n) == [i \in 1..(n * Len(s)) |-> s[((i - 1) % Len(s)) + 1]]

Prefix(s, n) == SubSeq(s, 1, IF n < Len(s) THEN n ELSE Len(s))

Drop(s, n) == SubSeq(s, n + 1, Len(s))

RECURSIVE Concat(_)
Concat(ss) == IF ss = <<>> THEN <<>> ELSE Head(ss) \o Concat(Tail(ss))

\* str.split(sep) for a one-character separator: always at least one piece
RECURSIVE SplitAt(_, _, _)
SplitAt(text, sep, cur) ==
    IF text = <<>> THEN <<cur>>
    ELSE IF Head(text) = sep THEN <<cur>> \o SplitAt(Tail(text), sep, <<>>)
    ELSE SplitAt(Tail(text), sep, Append(cur, Head(text)))

Split(text, sep) == SplitAt(text, sep, <<>>)

\* sep.join(parts)
RECURSIVE Join(_, _)
Join(parts, sep) ==
    IF parts = <<>> THEN <<>>
    ELSE IF Len(parts) = 1 THEN parts[1]
    ELSE parts[1] \o sep \o Join(Tail(parts), sep)

\* str.rstrip(), str.lstrip(), str.strip()
RECURSIVE RStrip(_)
RStrip(s) == IF s # <<>> /\ IsSpace(s[Len(s)]) THEN RStrip(SubSeq(s, 1, Len(s) - 1)) ELSE s

RECURSIVE LStrip(_)
LStrip(s) == IF s # <<>> /\ IsSpace(Head(s)) THEN LStrip(Tail(s)) ELSE s

Strip(s) == RStrip(LStrip(s))

\* text.replace('\r\n', '\n').replace('\r', '\n')
RECURSIVE ReplaceCRLF(_)
ReplaceCRLF(s) ==
    IF s = <<>> THEN <<>>
    ELSE IF Len(s) >= 2 /\ s[1] = CR /\ s[2] = LF THEN <<LF>> \o ReplaceCRLF(Drop(s, 2))
    ELSE <<Head(s)>> \o ReplaceCRLF(Tail(s))

ReplaceCR(s) == [i \in 1..Len(s) |-> IF s[i] = CR THEN LF ELSE s[i]]

LineEndings(text) == ReplaceCR(ReplaceCRLF(text))

\* len(text.split()): the number of whitespace-separated words
WordCount(s) ==
    Cardinality({i \in 1..Len(s) :
                    /\ ~IsSpace(s[i])
                    /\ (i = 1 \/ IsSpace(s[i - 1]) \/ s[i] \in SpaceWords)})

-----------------------------------------------------------------------------
(* The tokenizer (tiktoken, cl100k_base), the hash and the two normalizers *)

\* The vocabulary: a token's id is its place here.  Two-atom entries are
\* byte-pair merges; Encode takes the longest entry that matches.
Vocab ==
    << <<"a">>, <<"b">>, <<SP>>, <<"#">>, <<LF>>, <<CR>>, <<"#", "#">>, <<LF, LF>>,
       <<"usage">>, <<" a">>, <<"No">>, <<" model">>, <<" card">>, <<" found">>, <<".">>, <<EOT>> >>

TokenId(piece) == CHOOSE k \in 1..Len(Vocab) : Vocab[k] = piece

\* encoder.encode(text, disallowed_special=()): the special token's text is
\* encoded as ordinary text
RECURSIVE Encode(_)
Encode(text) ==
    IF text = <<>> THEN <<>>
    ELSE IF Len(text) >= 2 /\ \E k \in 1..Len(Vocab) : Vocab[k] = SubSeq(text, 1, 2)
         THEN <<TokenId(SubSeq(text, 1, 2))>> \o Encode(Drop(text, 2))
    ELSE <<TokenId(<<Head(text)>>)>> \o Encode(Tail(text))

\* encoder.encode(text) raises ValueError on a text that holds a special token
EncodeRaises(text) == \E i \in 1..Len(text) : text[i] = EOT

\* encoder.decode(tokens)
Decode(tokens) == Concat([i \in 1..Len(tokens) |-> Vocab[tokens[i]]])

\* RAGIndexBuilder.count_tokens and ModelCardFetcher.count_tokens
count_tokens(text) == IF EncodeRaises(text) THEN WordCount(text) ELSE Len(Encode(text))

\* MissingCardsProcessor.count_tokens
count_tokens_mc(text) == Len(Encode(text))

\* hashlib.sha256(text).hexdigest(): equal digests exactly for equal texts
compute_hash(text) == <<"sha256", text>>

\* "Collapse >3 blank lines to 2": the loop of normalize_text
RECURSIVE CollapseBlank(_, _)
CollapseBlank(lines, blank_count) ==
    IF lines = <<>> THEN <<>>
    ELSE IF Head(lines) = <<>>
         THEN (IF blank_count + 1 <= 2 THEN <<Head(lines)>> ELSE <<>>)
              \o CollapseBlank(Tail(lines), blank_count + 1)
    ELSE <<Head(lines)>> \o CollapseBlank(Tail(lines), 0)

RStripLines(lines) == [i \in 1..Len(lines) |-> RStrip(lines[i])]

\* RAGIndexBuilder.normalize_text
normalize_text(text) ==
    Join(CollapseBlank(RStripLines(Split(LineEndings(text), LF)), 0), <<LF>>)

\* re.sub(r'\n{3,}', '\n\n', text)
RECURSIVE CollapseNewlines(_, _)
CollapseNewlines(text, run) ==
    IF text = <<>> THEN <<>>
    ELSE IF Head(text) = LF
         THEN (IF run + 1 <= 2 THEN <<LF>> ELSE <<>>) \o CollapseNewlines(Tail(text), run + 1)
    ELSE <<Head(text)>> \o CollapseNewlines(Tail(text), 0)

\* MissingCardsProcessor.normalize_text
normalize_text_mc(text) == Strip(CollapseNewlines(LineEndings(text), 0))

-----------------------------------------------------------------------------
(* Section extraction for large cards *)

\* The section keywords ('description', 'overview', ..., 'license'), each one atom
Keywords == {"usage"}

HashRun(line) ==
    Cardinality({n \in 1..Len(line) : \A i \in 1..n : line[i] = "#"})

\* re.match(r'^(#{1,4})\s+(.+)$', line)
IsHeading14(line) ==
    /\ HashRun(line) \in 1..4
    /\ Len(line) >= HashRun(line) + 2
    /\ IsSpace(line[HashRun(line) + 1])

\* heading_match.group(2)
HeadingText(line) ==
    LET rest == LStrip(Drop(line, HashRun(line)))
    IN  IF rest # <<>> THEN rest ELSE <<line[Len(line)]>>

\* any(kw in (current_heading or '').lower() for kw in keywords)
IsKey(heading) == \E i \in 1..Len(heading) : heading[i] \in Keywords

Section(cur, is_key) == [content |-> Join(cur, <<LF>>), is_key |-> is_key]

\* the loop over the lines and "Save last section": cur is current_section,
\* cur_key whether current_heading holds a keyword
RECURSIVE SectionsFrom(_, _, _)
SectionsFrom(lines, cur, cur_key) ==
    IF lines = <<>> THEN (IF cur # <<>> THEN <<Section(cur, cur_key)>> ELSE <<>>)
    ELSE IF IsHeading14(Head(lines))
         THEN (IF cur # <<>> THEN <<Section(cur, cur_key)>> ELSE <<>>)
              \o SectionsFrom(Tail(lines), <<Head(lines)>>, IsKey(HeadingText(Head(lines))))
    ELSE SectionsFrom(Tail(lines), Append(cur, Head(lines)), cur_key)

SelectSections(sections, key) ==
    SelectSeq(sections, LAMBDA sec : sec.is_key = key)

\* one "for section in ..." loop: sections are added while they fit, and the
\* loop ends (break) at the first one that does not
\* self.count_tokens of the class: mc is TRUE in MissingCardsProcessor
CountOf(mc, text) == IF mc THEN count_tokens_mc(text) ELSE count_tokens(text)

RECURSIVE AddWhileFits(_, _, _, _)
AddWhileFits(mc, sections, acc, max_tokens) ==
    IF sections = <<>> THEN acc
    ELSE LET section_tokens == CountOf(mc, Head(sections).content)
         IN  IF acc.total_tokens + section_tokens <= max_tokens
             THEN AddWhileFits(mc, Tail(sections),
                      [extracted |-> Append(acc.extracted, Head(sections).content),
                       total_tokens |-> acc.total_tokens + section_tokens],
                      max_tokens)
             ELSE acc

\* the truncation fallbacks: encode, cut to max_tokens, decode; when encode
\* raises, text[:50000]
TruncateOrPrefix(text, max_tokens) ==
    IF EncodeRaises(text) THEN Prefix(text, 50000)
    ELSE Decode(Prefix(Encode(text), max_tokens))

\* key sections first, then the others, joined by a blank line
JoinFitting(mc, sections, max_tokens) ==
    Join(AddWhileFits(mc, SelectSections(sections, FALSE),
             AddWhileFits(mc, SelectSections(sections, TRUE),
                 [extracted |-> <<>>, total_tokens |-> 0], max_tokens),
             max_tokens).extracted,
         <<LF, LF>>)

\* "if not result or result.strip() == ''": fall back to truncation
OrTruncated(result, text, max_tokens) ==
    IF Strip(result) = <<>> THEN TruncateOrPrefix(text, max_tokens) ELSE result

\* extract_key_sections, the same text in both classes
ExtractWith(mc, text, max_tokens) ==
    IF text = <<>> THEN <<>>
    ELSE OrTruncated(JoinFitting(mc, SectionsFrom(Split(text, LF), <<>>, FALSE),
                                 max_tokens),
                     text, max_tokens)

\* RAGIndexBuilder.extract_key_sections
extract_key_sections(text, max_tokens) == ExtractWith(FALSE, text, max_tokens)

\* MissingCardsProcessor.extract_key_sections
extract_key_sections_mc(text, max_tokens) == ExtractWith(TRUE, text, max_tokens)

-----------------------------------------------------------------------------
(* The chunker *)

LargeCardMin == 10000            \* "if 10000 <= token_count <= 100000"
LargeCardMax == 100000
ExtractMaxTokens == 12000        \* extract_key_sections(..., max_tokens=12000)

Min(a, b) == IF a <= b THEN a ELSE b

\* the while loop of _sliding_window_split, from position start
RECURSIVE WindowsFrom(_, _, _, _)
WindowsFrom(tokens, start, target, overlap) ==
    IF ~(start < Len(tokens)) THEN <<>>
    ELSE LET end == Min(start + target, Len(tokens))
         IN  <<Decode(SubSeq(tokens, start + 1, end))>>
             \o (IF end >= Len(tokens) THEN <<>>
                 ELSE WindowsFrom(tokens, end - overlap, target, overlap))

\* _sliding_window_split (both classes), for a text that encodes
sliding_window_split(text, target, overlap) ==
    WindowsFrom(Encode(text), 0, target, overlap)

\* re.match(r'^#{2,3}\s+', line)
IsHeading23(line) ==
    /\ HashRun(line) \in 2..3
    /\ Len(line) >= HashRun(line) + 1
    /\ IsSpace(line[HashRun(line) + 1])

\* re.match(r'^(#{2,3})\s+(.+)$', line)
IsHeading23mc(line) ==
    /\ HashRun(line) \in 2..3
    /\ Len(line) >= HashRun(line) + 2
    /\ IsSpace(line[HashRun(line) + 1])

\* "split by headings": the sections as texts
IsChunkHeading(mc, line) == IF mc THEN IsHeading23mc(line) ELSE IsHeading23(line)

RECURSIVE HeadingSplit(_, _, _)
HeadingSplit(mc, lines, cur) ==
    IF lines = <<>> THEN (IF cur # <<>> THEN <<Join(cur, <<LF>>)>> ELSE <<>>)
    ELSE IF IsChunkHeading(mc, Head(lines))
         THEN (IF cur # <<>> THEN <<Join(cur, <<LF>>)>> ELSE <<>>)
              \o HeadingSplit(mc, Tail(lines), <<Head(lines)>>)
    ELSE HeadingSplit(mc, Tail(lines), Append(cur, Head(lines)))

Chunk(text, card_hash, chunk_index, token_count) ==
    [chunk_hash |-> compute_hash(text), card_hash |-> card_hash,
     chunk_index |-> chunk_index, chunk_text |-> text, token_count |-> token_count]

\* the chunks of the texts in pieces, numbered from chunk_index on
RECURSIVE ChunksOf(_, _, _, _)
ChunksOf(mc, pieces, card_hash, chunk_index) ==
    IF pieces = <<>> THEN <<>>
    ELSE <<Chunk(Head(pieces), card_hash, chunk_index, CountOf(mc, Head(pieces)))>>
         \o ChunksOf(mc, Tail(pieces), card_hash, chunk_index + 1)

Raised == [failed |-> TRUE, chunks |-> <<>>]
Returned(chunks) == [failed |-> FALSE, chunks |-> chunks]

\* the chunks of one section: itself when it fits, its sliding windows otherwise
SectionChunks(mc, section, section_tokens, card_hash, chunk_index, target, overlap) ==
    IF section_tokens <= target
    THEN <<Chunk(section, card_hash, chunk_index, section_tokens)>>
    ELSE ChunksOf(mc, sliding_window_split(section, target, overlap),
                  card_hash, chunk_index)

\* encoder.encode raises in the sliding window of a section that does not fit
SectionRaises(mc, section, target) ==
    CountOf(mc, section) > target /\ EncodeRaises(section)

\* the section loop without "chunk_index += 1"
ExtendWithoutIndex(acc, new) ==
    [chunks |-> acc.chunks \o new, chunk_index |-> acc.chunk_index]

\* chunks.append(...) and "chunk_index += 1" for the chunks of one section
Extend(acc, new) ==
    [chunks |-> acc.chunks \o new, chunk_index |-> acc.chunk_index + Len(new)]

\* "Process sections into chunks": acc holds chunks and chunk_index, which
\* runs on across the sections
RECURSIVE ProcessSections(_, _, _, _, _, _)
ProcessSections(mc, sections, card_hash, acc, target, overlap) ==
    IF sections = <<>> THEN Returned(acc.chunks)
    ELSE IF SectionRaises(mc, Head(sections), target) THEN Raised
    ELSE ProcessSections(mc, Tail(sections), card_hash,
             Extend(acc, SectionChunks(mc, Head(sections), CountOf(mc, Head(sections)),
                                       card_hash, acc.chunk_index, target, overlap)),
             target, overlap)

\* the text and token count that chunk_text goes on with after extraction
Reduced(mc, text) ==
    [failed |-> FALSE, text |-> text, token_count |-> CountOf(mc, text)]

\* "Validate extraction result": an empty extraction falls back to cutting
\* the tokens, which raises when encode does
AfterExtraction(mc, normalized_text, extracted_text) ==
    IF Strip(extracted_text) = <<>>
    THEN IF EncodeRaises(normalized_text)
         THEN [failed |-> TRUE, text |-> <<>>, token_count |-> 0]
         ELSE Reduced(mc, Decode(Prefix(Encode(normalized_text), ExtractMaxTokens)))
    ELSE Reduced(mc, extracted_text)

\* "Handle large cards (10k-100k tokens)"
LargeCardStep(mc, normalized_text, token_count) ==
    IF ~(LargeCardMin <= token_count /\ token_count <= LargeCardMax)
    THEN [failed |-> FALSE, text |-> normalized_text, token_count |-> token_count]
    ELSE AfterExtraction(mc, normalized_text,
                         ExtractWith(mc, normalized_text, ExtractMaxTokens))

\* "Multi-chunk: split by headings", with the sliding window when no heading
\* splits the text.  The builder sends the windows through the section loop,
\* the reprocessor numbers them as they are.
MultiChunk(mc, normalized_text, sections, card_hash, target, overlap) ==
    IF Len(sections) <= 1 /\ EncodeRaises(normalized_text) THEN Raised
    ELSE IF mc /\ Len(sections) <= 1
    THEN Returned(ChunksOf(TRUE, sliding_window_split(normalized_text, target, overlap),
                           card_hash, 0))
    ELSE ProcessSections(mc,
             IF Len(sections) <= 1
             THEN sliding_window_split(normalized_text, target, overlap)
             ELSE sections,
             card_hash, [chunks |-> <<>>, chunk_index |-> 0], target, overlap)

\* "Single chunk for small cards", else the multi-chunk path
SingleOrMulti(mc, large, card_hash, target, overlap) ==
    IF large.failed THEN Raised
    ELSE IF large.token_count <= target
    THEN Returned(<<Chunk(large.text, card_hash, 0, large.token_count)>>)
    ELSE MultiChunk(mc, large.text, HeadingSplit(mc, Split(large.text, LF), <<>>),
                    card_hash, target, overlap)

\* RAGIndexBuilder.chunk_text: failed when an exception leaves the function
chunk_text(text, card_hash, token_count, target, overlap) ==
    SingleOrMulti(FALSE, LargeCardStep(FALSE, normalize_text(text), token_count),
                  card_hash, target, overlap)

\* MissingCardsProcessor.chunk_text
chunk_text_mc(text, card_hash, token_count, target, overlap) ==
    SingleOrMulti(TRUE, LargeCardStep(TRUE, normalize_text_mc(text), token_count),
                  card_hash, target, overlap)

-----------------------------------------------------------------------------
(* The store and the processes *)

NumModels == 2                   \* the model ids are 1..NumModels, in id order
MaxRuns == 2                     \* runs of build_hf_rag_index.py
MaxReprocessorRuns == 1          \* runs of process_missing_cards.py
MaxExternal == 1                 \* edits of stored cards from outside the pipeline

ModelIds == 1..NumModels

Sentinel == <<"No", " model", " card", " found", ".">>   \* 'No model card found.'
Plain == Rep(<<"a">>, 50)
TrailingSpace == Plain \o <<SP>>
TrailingNewline == Plain \o <<LF>>
Headed == Rep(<<"a">>, 26) \o <<LF, "#", "#", SP, "usage", LF>> \o Rep(<<"b">>, 26)
WithSpecial == <<"a">> \o Rep(<<" a">>, 48) \o <<SP, EOT>>

\* the card texts that the Hub serves, in the order of their digests
TextOrder == <<Headed, Plain, WithSpecial, TrailingSpace, Sentinel, TrailingNewline>>
CardTexts == {TextOrder[i] : i \in 1..Len(TextOrder)}

HashRank(h) == CHOOSE i \in 1..Len(TextOrder) : compute_hash(TextOrder[i]) = h

\* token counts that an external edit may store
EditedTokenCounts == {49, 10000, 100001}

\* a nullable integer column: <<>> is NULL, <<n>> holds n
NullInt == <<>>

\* the hf.models rows a model may have
PopularityRows ==
    { [downloads |-> NullInt, likes |-> NullInt],
      [downloads |-> <<100>>, likes |-> <<5>>],
      [downloads |-> <<100>>, likes |-> <<10>>] }

NoCard == [absent |-> TRUE]

Builder == "builder"             \* build_hf_rag_index.py
Reprocessor == "reprocessor"     \* process_missing_cards.py
Procs == {Builder, Reprocessor}

EmbedModel == "text-embedding-3-small"
ChunkerVersions == {"hf_chunker_v1", "hf_chunker_v2"}
EmbeddingVectors == {"e1", "e2"}  \* what the embedding service may answer

VARIABLES
    models,          \* hf.models: model id -> [downloads, likes]
    model_cards,     \* hf.model_cards: model id -> row, or NoCard
    card_canon,      \* hf.card_canon: card_hash -> [canonical_model_id, duplicate_count]
    model_to_card,   \* hf.model_to_card: model id -> card_hash
    card_chunks,     \* hf.card_chunks: the committed rows; a row's id is its place
    st,              \* per script: its position, configuration and working set
    hist,            \* history of the run, read by the properties only
    ranking,         \* the ranking call in progress: its arguments and what it returned
    search,          \* the search request in progress and the response to it
    helper           \* a helper of the chunker called on its own: arguments, loop position, result

vars == <<models, model_cards, card_canon, model_to_card, card_chunks, st, hist,
          ranking, search, helper>>

-----------------------------------------------------------------------------
(* Ingestion: ModelCardFetcher.process_model and store_model_card *)

CardRow(text) ==
    [card_text |-> text, card_hash |-> compute_hash(text),
     token_count |-> count_tokens(text),
     excluded_from_rag |-> FALSE, exclusion_reason |-> NULL]

HasCard(cards, m) == cards[m] # NoCard

\* INSERT ... ON CONFLICT (model_id) DO NOTHING
store_model_card(cards, m, text) ==
    IF HasCard(cards, m) THEN cards ELSE [cards EXCEPT ![m] = CardRow(text)]

-----------------------------------------------------------------------------
(* Step A: RAGIndexBuilder.apply_exclusion_rules *)

TooShortBelow == 50              \* "WHERE token_count < 50"
TooLongAbove == 100000           \* "WHERE token_count > 100000"

ExclusionReason(rule) ==
    CASE rule = 1 -> "No content"
      [] rule = 2 -> "Too short (<50 tokens)"
      [] rule = 3 -> "Too long (>100k tokens, likely non-textual)"

\* the WHERE clause without "AND excluded_from_rag = FALSE"
RuleMatchesAnyRow(rule, row) ==
    CASE rule = 1 -> row.card_text = Sentinel
      [] rule = 2 -> row.token_count < TooShortBelow
      [] rule = 3 -> row.token_count > TooLongAbove

\* the WHERE clause with the thresholds taken inclusively
RuleMatchesInclusive(rule, row) ==
    /\ CASE rule = 1 -> row.card_text = Sentinel
         [] rule = 2 -> row.token_count <= TooShortBelow
         [] rule = 3 -> row.token_count >= TooLongAbove
    /\ row.excluded_from_rag = FALSE

\* the WHERE clause of the rule's UPDATE
RuleMatches(rule, row) ==
    /\ CASE rule = 1 -> row.card_text = Sentinel
         [] rule = 2 -> row.token_count < TooShortBelow
         [] rule = 3 -> row.token_count > TooLongAbove
    /\ row.excluded_from_rag = FALSE

RuleRows(cards, rule) ==
    {m \in ModelIds : HasCard(cards, m) /\ RuleMatches(rule, cards[m])}

\* one UPDATE hf.model_cards SET excluded_from_rag = TRUE, exclusion_reason = ...
ApplyRule(cards, rule) ==
    [m \in ModelIds |->
        IF m \in RuleRows(cards, rule)
        THEN [cards[m] EXCEPT !.excluded_from_rag = TRUE,
                              !.exclusion_reason = ExclusionReason(rule)]
        ELSE cards[m]]

\* the three UPDATEs in order, and cursor.rowcount of each
apply_exclusion_rules(cards) ==
    LET after1 == ApplyRule(cards, 1)
        after2 == ApplyRule(after1, 2)
        after3 == ApplyRule(after2, 3)
    IN  [cards |-> after3,
         excluded_no_content |-> Cardinality(RuleRows(cards, 1)),
         excluded_too_short |-> Cardinality(RuleRows(after1, 2)),
         excluded_too_long |-> Cardinality(RuleRows(after2, 3))]

\* self.stats['excluded_...'] = rule..._count, and their sum
ExclusionStats(result) ==
    [excluded_no_content |-> result.excluded_no_content,
     excluded_too_short |-> result.excluded_too_short,
     excluded_too_long |-> result.excluded_too_long,
     total_excluded |-> result.excluded_no_content + result.excluded_too_short
                           + result.excluded_too_long]

\* the UPDATEs of the rows the pass leaves, and the counts it reports
ExclusionPass(p, result) ==
    /\ model_cards' = result.cards
    /\ st' = [st EXCEPT ![p].pc = "canonical", ![p].stats = ExclusionStats(result)]

-----------------------------------------------------------------------------
(* Step B: RAGIndexBuilder.build_canonical_mapping *)

\* the column without COALESCE: ORDER BY ... DESC puts NULL first
NullsFirst(v, default) == IF v = NullInt THEN 1000000 ELSE v[1]

Coalesce(v, default) == IF v = NullInt THEN default ELSE v[1]

\* one row of the SELECT: a non-excluded card joined with hf.models
CanonRow(cards, pop, m) ==
    [card_hash |-> cards[m].card_hash, model_id |-> m,
     downloads |-> Coalesce(pop[m].downloads, 0),
     likes |-> Coalesce(pop[m].likes, 0)]

\* ORDER BY mc.card_hash, downloads DESC, likes DESC, model_id_tie ASC
RowBefore(r1, r2) ==
    \/ HashRank(r1.card_hash) < HashRank(r2.card_hash)
    \/ /\ r1.card_hash = r2.card_hash
       /\ \/ r1.downloads > r2.downloads
          \/ /\ r1.downloads = r2.downloads
             /\ \/ r1.likes > r2.likes
                \/ r1.likes = r2.likes /\ r1.model_id < r2.model_id

RECURSIVE SortRows(_)
SortRows(rows) ==
    IF rows = {} THEN <<>>
    ELSE LET first == CHOOSE r \in rows : \A o \in rows \ {r} : RowBefore(r, o)
         IN  <<first>> \o SortRows(rows \ {first})

\* cursor.fetchall() of the SELECT ... WHERE mc.excluded_from_rag = FALSE
SelectNonExcluded(cards, pop) ==
    SortRows({CanonRow(cards, pop, m) :
                 m \in {x \in ModelIds : HasCard(cards, x)
                                         /\ cards[x].excluded_from_rag = FALSE}})

\* hash_groups[card_hash]: the rows of one hash in fetch order
HashGroup(rows, h) == SelectSeq(rows, LAMBDA r : r.card_hash = h)

GroupHashes(rows) == {rows[i].card_hash : i \in 1..Len(rows)}

\* INSERT INTO hf.card_canon ... ON CONFLICT (card_hash) DO UPDATE
UpsertCanon(canon, rows) ==
    [h \in (DOMAIN canon) \cup GroupHashes(rows) |->
        IF h \in GroupHashes(rows)
        THEN [canonical_model_id |-> HashGroup(rows, h)[1].model_id,
              duplicate_count |-> Len(HashGroup(rows, h))]
        ELSE canon[h]]

RowHashOf(rows, m) == (CHOOSE i \in 1..Len(rows) : rows[i].model_id = m)

\* INSERT INTO hf.model_to_card ... ON CONFLICT (model_id) DO UPDATE
UpsertModelToCard(mtc, rows) ==
    LET mapped == {rows[i].model_id : i \in 1..Len(rows)}
    IN  [m \in (DOMAIN mtc) \cup mapped |->
            IF m \in mapped THEN rows[RowHashOf(rows, m)].card_hash ELSE mtc[m]]

-----------------------------------------------------------------------------
(* Configuration: main() of both scripts reads it from the environment *)

DefaultConfig ==
    [embed_model |-> EmbedModel, chunker_version |-> "hf_chunker_v1",
     chunk_target |-> 900, chunk_overlap |-> 120,
     max_canon_models |-> 0, batch_size |-> 100]

\* CHUNK_TARGET_TOKENS and CHUNK_OVERLAP_TOKENS an environment may set
TargetsAndOverlaps == {<<900, 120>>, <<30, 5>>}

\* MAX_CANON_MODELS an environment may set
CanonLimits == {0, 1}

ConfigOf(version, target_overlap, limit) ==
    [DefaultConfig EXCEPT !.chunker_version = version,
                          !.chunk_target = target_overlap[1],
                          !.chunk_overlap = target_overlap[2],
                          !.max_canon_models = limit]

Configs ==
    {ConfigOf(v, t, l) : v \in ChunkerVersions, t \in TargetsAndOverlaps, l \in CanonLimits}

Pair(config) == <<config.chunker_version, config.embed_model>>

RowPair(row) == <<row.chunker_version, row.embedding_model_name>>

-----------------------------------------------------------------------------
(* Step C: RAGIndexBuilder.chunk_all_canonical_cards *)

\* one row of "hf.card_canon cc JOIN hf.model_cards mc"
JoinRow(canon, cards, h) ==
    [card_hash |-> h, canonical_model_id |-> canon[h].canonical_model_id,
     card_text |-> cards[canon[h].canonical_model_id].card_text,
     token_count |-> cards[canon[h].canonical_model_id].token_count]

RECURSIVE SortByHash(_)
SortByHash(rows) ==
    IF rows = {} THEN <<>>
    ELSE LET first == CHOOSE r \in rows :
                          \A o \in rows : HashRank(r.card_hash) <= HashRank(o.card_hash)
         IN  <<first>> \o SortByHash(rows \ {first})

\* "if self.config['max_canon_models'] > 0: LIMIT ..."
Limit(rows, max_canon_models) ==
    IF max_canon_models > 0 THEN Prefix(rows, Min(max_canon_models, Len(rows))) ELSE rows

\* SELECT ... FROM hf.card_canon cc JOIN hf.model_cards mc ... ORDER BY cc.card_hash
CanonicalCards(canon, cards, max_canon_models) ==
    Limit(SortByHash({JoinRow(canon, cards, h) :
                         h \in {x \in DOMAIN canon :
                                   HasCard(cards, canon[x].canonical_model_id)}}),
          max_canon_models)

ChunkOne(mc, card, config) ==
    IF mc THEN chunk_text_mc(card.card_text, card.card_hash, card.token_count,
                             config.chunk_target, config.chunk_overlap)
    ELSE chunk_text(card.card_text, card.card_hash, card.token_count,
                    config.chunk_target, config.chunk_overlap)

ChunkingFailure(card) ==
    [step |-> "chunking", card_hash |-> card.card_hash,
     model_id |-> card.canonical_model_id]

\* the loop over the selected cards: what chunk_text gave for each
ChunkCards(mc, cards, config) ==
    [i \in 1..Len(cards) |-> ChunkOne(mc, cards[i], config)]

\* all_chunks.extend(chunks) of the cards that did not raise
AllChunks(results) ==
    Concat([i \in 1..Len(results) |->
               IF results[i].failed THEN <<>> ELSE results[i].chunks])

\* self.failures.append(...) of the cards that raised
ChunkingFailures(cards, results) ==
    LET failed == SelectSeq([i \in 1..Len(cards) |-> i], LAMBDA i : results[i].failed)
    IN  [k \in 1..Len(failed) |-> ChunkingFailure(cards[failed[k]])]

ChunkRow(chunk, config) ==
    [chunk_hash |-> chunk.chunk_hash, card_hash |-> chunk.card_hash,
     chunk_index |-> chunk.chunk_index, chunk_text |-> chunk.chunk_text,
     token_count |-> chunk.token_count,
     embedding_model_name |-> config.embed_model,
     chunker_version |-> config.chunker_version,
     embedding |-> NULL]

\* ON CONFLICT (chunker_version, embedding_model_name, chunk_hash)
Conflicts(rows, new) ==
    \E i \in 1..Len(rows) :
        /\ rows[i].chunker_version = new.chunker_version
        /\ rows[i].embedding_model_name = new.embedding_model_name
        /\ rows[i].chunk_hash = new.chunk_hash

\* the INSERT without "ON CONFLICT ... DO NOTHING" into a table without the
\* unique constraint
AppendChunks(rows, chunks, config) ==
    rows \o [i \in 1..Len(chunks) |-> ChunkRow(chunks[i], config)]

\* INSERT INTO hf.card_chunks ... DO NOTHING, one chunk after the other
RECURSIVE InsertChunks(_, _, _)
InsertChunks(rows, chunks, config) ==
    IF chunks = <<>> THEN rows
    ELSE LET new == ChunkRow(Head(chunks), config)
         IN  InsertChunks(IF Conflicts(rows, new) THEN rows ELSE Append(rows, new),
                          Tail(chunks), config)

-----------------------------------------------------------------------------
(* MissingCardsProcessor.process_missing_cards: the cards without chunks *)

\* WHERE NOT EXISTS (chunk of that card_hash) AND NOT COALESCE(mc.excluded_from_rag, false)
MissingRows(canon, cards, chunks) ==
    {JoinRow(canon, cards, h) :
        h \in {x \in DOMAIN canon :
                  /\ HasCard(cards, canon[x].canonical_model_id)
                  /\ ~ \E i \in 1..Len(chunks) : chunks[i].card_hash = x
                  /\ ~ cards[canon[x].canonical_model_id].excluded_from_rag}}

\* ORDER BY mc.token_count DESC: every order the database may answer in
MissingCards(canon, cards, chunks) ==
    LET rows == MissingRows(canon, cards, chunks)
        n == Cardinality(rows)
    IN  {s \in [1..n -> rows] :
            /\ \A i, j \in 1..n : i # j => s[i] # s[j]
            /\ \A i, j \in 1..n : i < j => s[i].token_count >= s[j].token_count}

-----------------------------------------------------------------------------
(* Step D: embed_chunks and embed_new_chunks *)

StopAfterAttempt == 5            \* tenacity: stop=stop_after_attempt(5)
CommitEvery == 10                \* embed_new_chunks: "if embedded_count % 10 == 0"

\* the SELECT without "embedding IS NULL"
SelectChunksOfPair(rows, config) ==
    SelectSeq([i \in 1..Len(rows) |-> i],
              LAMBDA i : /\ rows[i].chunker_version = config.chunker_version
                         /\ rows[i].embedding_model_name = config.embed_model)

\* the SELECT without the chunker_version and embedding_model_name conditions
SelectNullChunks(rows, config) ==
    SelectSeq([i \in 1..Len(rows) |-> i], LAMBDA i : rows[i].embedding = NULL)

\* SELECT id ... WHERE embedding IS NULL AND chunker_version = %s
\*   AND embedding_model_name = %s ORDER BY id
SelectChunksToEmbed(rows, config) ==
    SelectSeq([i \in 1..Len(rows) |-> i],
              LAMBDA i : /\ rows[i].embedding = NULL
                         /\ rows[i].chunker_version = config.chunker_version
                         /\ rows[i].embedding_model_name = config.embed_model)

\* UPDATE hf.card_chunks SET embedding = %s WHERE id = %s
UpdateEmbedding(rows, id, embedding) == [rows EXCEPT ![id].embedding = embedding]

\* a loop that never calls conn.commit(): the updates are lost with the
\* connection
CommitNothing(rows, pending) == rows

\* conn.commit(): the transaction's updates reach the table in the order made
RECURSIVE Commit(_, _)
Commit(rows, pending) ==
    IF pending = <<>> THEN rows
    ELSE Commit(UpdateEmbedding(rows, Head(pending).id, Head(pending).embedding),
                Tail(pending))

EmbeddingFailure(id) == [step |-> "embedding", chunk_id |-> id]

\* whether the script commits after the chunk at place done (of total):
\* the builder at the end of each batch, the reprocessor every tenth
\* embedding and after the loop
CommitsAfter(p, proc, done, total, embedded_now) ==
    IF p = Builder
    THEN done % proc.config.batch_size = 0 \/ done = total
    ELSE (embedded_now /\ proc.embedded_count % CommitEvery = 0) \/ done = total

\* a row another open transaction has updated is locked until it commits
Locked(p, id) ==
    \E q \in Procs \ {p} :
        \E i \in 1..Len(st[q].pending) : st[q].pending[i].id = id

-----------------------------------------------------------------------------
(* The two scripts as processes *)

\* self.stats of apply_exclusion_rules, before the step has run
NoStats == [excluded_no_content |-> 0, excluded_too_short |-> 0,
            excluded_too_long |-> 0, total_excluded |-> 0]

Idle ==
    [pc |-> "idle", runs |-> 0, config |-> DefaultConfig, failures |-> <<>>,
     chunks_to_embed |-> <<>>, done |-> 0, attempt |-> 1,
     embedded_count |-> 0, pending |-> <<>>, aborted |-> FALSE,
     stats |-> NoStats]

\* what the properties remember of an embedding phase: its pair, the number of
\* chunk rows when it selected, whether it called the embedding service,
\* whether a chunk failed, and the number it embedded
NoPhase == [known |-> FALSE, pair |-> Pair(DefaultConfig), rows |-> 0,
            called |-> FALSE, failed |-> FALSE, embedded |-> 0]

\* what the properties remember of the last call of the embedding service for
\* the chunk a script is at: the chunk, the number of the attempt, and the
\* answer; nothing once the script has left the chunk
NoCall == [chunk |-> 0, n |-> 0, response |-> "none"]

Called(p, response) ==
    [chunk |-> st[p].chunks_to_embed[st[p].done + 1], n |-> st[p].attempt,
     response |-> response]

\* what the properties remember of a script's last chunking loop: its
\* configuration, the cards it selected, what chunk_text gave for each, and
\* whether the loop before it had the same configuration and cards
NoChunking == [known |-> FALSE, config |-> DefaultConfig, cards |-> <<>>,
               results |-> <<>>, repeated |-> FALSE]

\* The ranking engine holds no state between calls.
NoRanking ==
    [pc |-> "idle"]

\* No search request is being served.
NoSearch ==
    [pc |-> "idle"]

\* No helper of the chunker is running on its own.
NoHelper ==
    [pc |-> "idle"]

InitIndex ==
    /\ models \in [ModelIds -> PopularityRows]
    /\ model_cards = [m \in ModelIds |-> NoCard]
    /\ card_canon = <<>>
    /\ model_to_card = <<>>
    /\ card_chunks = <<>>
    /\ st = [p \in Procs |-> Idle]
    /\ hist = [edits |-> 0, quiet |-> FALSE, kills |-> 0,
               call |-> [p \in Procs |-> NoCall],
               chunking |-> [p \in Procs |-> NoChunking],
               phase |-> [p \in Procs |-> NoPhase],
               previous |-> [p \in Procs |-> NoPhase]]

Init ==
    /\ InitIndex
    /\ ranking = NoRanking
    /\ search = NoSearch
    /\ helper = NoHelper

\* hf_fetch_model_cards.py stores the card of model m
Ingest(m, text) ==
    /\ model_cards' = store_model_card(model_cards, m, text)
    /\ hist' = [hist EXCEPT !.quiet = FALSE]
    /\ UNCHANGED <<helper, search, ranking, models, card_canon, model_to_card, card_chunks, st>>

\* somebody outside the pipeline rewrites the text of a stored card
ExternalText(m, text) ==
    /\ HasCard(model_cards, m)
    /\ hist.edits < MaxExternal
    /\ model_cards' = [model_cards EXCEPT ![m].card_text = text,
                                          ![m].card_hash = compute_hash(text),
                                          ![m].token_count = count_tokens(text)]
    /\ hist' = [hist EXCEPT !.quiet = FALSE, !.edits = @ + 1]
    /\ UNCHANGED <<helper, search, ranking, models, card_canon, model_to_card, card_chunks, st>>

\* somebody outside the pipeline rewrites the token count of a stored card
ExternalTokenCount(m, n) ==
    /\ HasCard(model_cards, m)
    /\ hist.edits < MaxExternal
    /\ model_cards' = [model_cards EXCEPT ![m].token_count = n]
    /\ hist' = [hist EXCEPT !.quiet = FALSE, !.edits = @ + 1]
    /\ UNCHANGED <<helper, search, ranking, models, card_canon, model_to_card, card_chunks, st>>

\* build_hf_rag_index.py: main() builds the config, RAGIndexBuilder(config).run()
BuilderMain(config) ==
    /\ st[Builder].pc = "idle"
    /\ st[Builder].runs < MaxRuns
    /\ st' = [st EXCEPT ![Builder] =
                 [Idle EXCEPT !.pc = "exclusion", !.runs = st[Builder].runs + 1,
                              !.config = config]]
    /\ hist' = [hist EXCEPT !.quiet = TRUE]
    /\ UNCHANGED <<helper, search, ranking, models, model_cards, card_canon, model_to_card, card_chunks>>

StepA ==
    /\ st[Builder].pc = "exclusion"
    /\ ExclusionPass(Builder, apply_exclusion_rules(model_cards))
    /\ UNCHANGED <<helper, search, ranking, models, card_canon, model_to_card, card_chunks, hist>>

StepB ==
    /\ st[Builder].pc = "canonical"
    /\ LET cards == SelectNonExcluded(model_cards, models)
       IN  /\ card_canon' = UpsertCanon(card_canon, cards)
           /\ model_to_card' = UpsertModelToCard(model_to_card, cards)
    /\ st' = [st EXCEPT ![Builder].pc = "chunking"]
    /\ UNCHANGED <<helper, search, ranking, models, model_cards, card_chunks, hist>>

\* the inserts and the commit that end a chunking loop
StoreChunks(p, cards, results) ==
    /\ card_chunks' = InsertChunks(card_chunks, AllChunks(results), st[p].config)
    /\ st' = [st EXCEPT ![p].pc = "embed",
                        ![p].failures = @ \o ChunkingFailures(cards, results)]
    /\ hist' = [hist EXCEPT !.chunking[p] =
                   [known |-> TRUE, config |-> st[p].config,
                    cards |-> cards, results |-> results,
                    repeated |-> /\ hist.chunking[p].known
                                 /\ hist.chunking[p].config = st[p].config
                                 /\ hist.chunking[p].cards = cards]]

ChunkAndStore(p, cards) ==
    StoreChunks(p, cards, ChunkCards(p = Reprocessor, cards, st[p].config))

StepC ==
    /\ st[Builder].pc = "chunking"
    /\ ChunkAndStore(Builder,
                     CanonicalCards(card_canon, model_cards,
                                    st[Builder].config.max_canon_models))
    /\ UNCHANGED <<helper, search, ranking, models, model_cards, card_canon, model_to_card>>

\* the end of one turn of the embedding loop: commit where the script does,
\* and leave the phase (report, close) after the last chunk; the COMMIT of a
\* transaction in which a statement has failed rolls the transaction back
FinishChunk(p, proc, embedded_now) ==
    LET total == Len(proc.chunks_to_embed)
        commits == CommitsAfter(p, proc, proc.done, total, embedded_now)
    IN  /\ card_chunks' = IF commits /\ ~proc.aborted
                          THEN Commit(card_chunks, proc.pending)
                          ELSE card_chunks
        /\ st' = [st EXCEPT ![p] =
                     [proc EXCEPT !.pending = IF commits THEN <<>> ELSE @,
                                  !.aborted = IF commits THEN FALSE ELSE @,
                                  !.pc = IF proc.done = total THEN "idle" ELSE @]]

\* the SELECT of embed_chunks / embed_new_chunks
EmbedSelect(p) ==
    /\ st[p].pc = "embed"
    /\ LET chunks_to_embed == SelectChunksToEmbed(card_chunks, st[p].config)
       IN  st' = [st EXCEPT ![p].chunks_to_embed = chunks_to_embed,
                            ![p].done = 0, ![p].attempt = 1,
                            ![p].embedded_count = 0,
                            ![p].pc = IF chunks_to_embed = <<>> THEN "idle"
                                      ELSE "embedding"]
    /\ hist' = [hist EXCEPT !.previous[p] = hist.phase[p],
                            !.phase[p] = [NoPhase EXCEPT !.known = TRUE,
                                                         !.pair = Pair(st[p].config),
                                                         !.rows = Len(card_chunks)]]
    /\ UNCHANGED <<helper, search, ranking, models, model_cards, card_canon, model_to_card, card_chunks>>

\* generate_embedding answers, and the UPDATE of the chunk follows; in a
\* transaction in which a statement has failed the UPDATE raises, and
\* "except Exception" appends a failure
EmbedOk(p, embedding) ==
    /\ st[p].pc = "embedding"
    /\ IF st[p].aborted
       THEN /\ FinishChunk(p,
                   [st[p] EXCEPT !.failures = Append(@, EmbeddingFailure(
                                                   st[p].chunks_to_embed[st[p].done + 1])),
                                 !.done = @ + 1, !.attempt = 1],
                   FALSE)
            /\ hist' = [hist EXCEPT !.phase[p].called = TRUE, !.phase[p].failed = TRUE,
                                    !.call[p] = NoCall]
       ELSE LET id == st[p].chunks_to_embed[st[p].done + 1]
            IN  /\ ~Locked(p, id)
                /\ FinishChunk(p,
                       [st[p] EXCEPT !.pending = Append(@, [id |-> id, embedding |-> embedding]),
                                     !.embedded_count = @ + 1,
                                     !.done = @ + 1, !.attempt = 1],
                       TRUE)
                /\ hist' = [hist EXCEPT !.phase[p].called = TRUE,
                                        !.phase[p].embedded = @ + 1,
                                        !.call[p] = NoCall]
    /\ UNCHANGED <<helper, search, ranking, models, model_cards, card_canon, model_to_card>>

\* generate_embedding answers and the database refuses the UPDATE: "except
\* Exception" appends a failure, and the transaction stays failed, with no
\* rollback, until the next commit
EmbedUpdateError(p) ==
    /\ st[p].pc = "embedding"
    /\ ~st[p].aborted
    /\ FinishChunk(p,
           [st[p] EXCEPT !.failures = Append(@, EmbeddingFailure(
                                           st[p].chunks_to_embed[st[p].done + 1])),
                         !.done = @ + 1, !.attempt = 1, !.aborted = TRUE],
           FALSE)
    /\ hist' = [hist EXCEPT !.phase[p].called = TRUE, !.phase[p].failed = TRUE,
                            !.call[p] = NoCall]
    /\ UNCHANGED <<helper, search, ranking, models, model_cards, card_canon, model_to_card>>

\* the chunk of this turn is given up: "except Exception" appends a failure
GiveUp(p) ==
    FinishChunk(p,
        [st[p] EXCEPT !.failures = Append(@, EmbeddingFailure(
                                        st[p].chunks_to_embed[st[p].done + 1])),
                      !.done = @ + 1, !.attempt = 1],
        FALSE)

\* the service answers RateLimitError: tenacity tries again, up to
\* StopAfterAttempt attempts, then re-raises
EmbedRateLimit(p) ==
    /\ st[p].pc = "embedding"
    /\ IF st[p].attempt < StopAfterAttempt
       THEN /\ st' = [st EXCEPT ![p].attempt = @ + 1]
            /\ hist' = [hist EXCEPT !.phase[p].called = TRUE,
                                    !.call[p] = Called(p, "rate_limit")]
            /\ UNCHANGED card_chunks
       ELSE /\ GiveUp(p)
            /\ hist' = [hist EXCEPT !.phase[p].called = TRUE, !.phase[p].failed = TRUE,
                                    !.call[p] = NoCall]
    /\ UNCHANGED <<helper, search, ranking, models, model_cards, card_canon, model_to_card>>

\* a retry that is not limited to RateLimitError: any exception is tried again
EmbedErrorRetried(p) ==
    /\ st[p].pc = "embedding"
    /\ IF st[p].attempt < StopAfterAttempt
       THEN /\ st' = [st EXCEPT ![p].attempt = @ + 1]
            /\ hist' = [hist EXCEPT !.phase[p].called = TRUE,
                                    !.call[p] = Called(p, "error")]
            /\ UNCHANGED card_chunks
       ELSE /\ GiveUp(p)
            /\ hist' = [hist EXCEPT !.phase[p].called = TRUE, !.phase[p].failed = TRUE,
                                    !.call[p] = NoCall]
    /\ UNCHANGED <<helper, search, ranking, models, model_cards, card_canon, model_to_card>>

\* the service fails with any other exception: no retry
EmbedError(p) ==
    /\ st[p].pc = "embedding"
    /\ GiveUp(p)
    /\ hist' = [hist EXCEPT !.phase[p].called = TRUE, !.phase[p].failed = TRUE,
                            !.call[p] = NoCall]
    /\ UNCHANGED <<helper, search, ranking, models, model_cards, card_canon, model_to_card>>

\* the script is killed during its embedding phase: the open transaction is
\* rolled back by the server, and nothing of the process is left
Kill(p) ==
    /\ st[p].pc \in {"embed", "embedding"}
    /\ st' = [st EXCEPT ![p] = [Idle EXCEPT !.runs = st[p].runs]]
    /\ hist' = [hist EXCEPT !.kills = @ + 1, !.call[p] = NoCall]
    /\ UNCHANGED <<helper, search, ranking, models, model_cards, card_canon, model_to_card, card_chunks>>

\* process_missing_cards.py: main() builds the config, MissingCardsProcessor(config).run()
ReprocessorMain(config) ==
    /\ st[Reprocessor].pc = "idle"
    /\ st[Reprocessor].runs < MaxReprocessorRuns
    /\ st' = [st EXCEPT ![Reprocessor] =
                 [Idle EXCEPT !.pc = "missing", !.runs = st[Reprocessor].runs + 1,
                              !.config = config]]
    /\ UNCHANGED <<helper, search, ranking, models, model_cards, card_canon, model_to_card, card_chunks, hist>>

\* process_missing_cards up to its commit; embed_new_chunks follows
ProcessMissing(missing_cards) ==
    /\ st[Reprocessor].pc = "missing"
    /\ missing_cards \in MissingCards(card_canon, model_cards, card_chunks)
    /\ IF missing_cards = <<>>
       THEN /\ st' = [st EXCEPT ![Reprocessor].pc = "idle"]
            /\ UNCHANGED <<card_chunks, hist>>
       ELSE ChunkAndStore(Reprocessor, missing_cards)
    /\ UNCHANGED <<helper, search, ranking, models, model_cards, card_canon, model_to_card>>

\* the environments the reprocessor reads: it has no limit and no batch size
ReprocessorConfigs == {c \in Configs : c.max_canon_models = 0}

Next ==
    \/ \E m \in ModelIds, text \in CardTexts : Ingest(m, text)
    \/ \E m \in ModelIds, text \in CardTexts : ExternalText(m, text)
    \/ \E m \in ModelIds, n \in EditedTokenCounts : ExternalTokenCount(m, n)
    \/ \E config \in Configs : BuilderMain(config)
    \/ StepA
    \/ StepB
    \/ StepC
    \/ \E p \in Procs : EmbedSelect(p)
    \/ \E p \in Procs, embedding \in EmbeddingVectors : EmbedOk(p, embedding)
    \/ \E p \in Procs : EmbedRateLimit(p)
    \/ \E p \in Procs : EmbedError(p)
    \/ \E config \in ReprocessorConfigs : ReprocessorMain(config)
    \/ \E missing_cards \in MissingCards(card_canon, model_cards, card_chunks) :
          ProcessMissing(missing_cards)

Spec == Init /\ [][Next]_vars

-----------------------------------------------------------------------------
(* Exclusion and canonical mapping: cards that differ in trailing whitespace
   or are the sentinel, every popularity, edits from outside, the default
   environment and an embedding service that answers *)

CanonTexts == {Plain, TrailingSpace, Sentinel}

NextCanon ==
    \/ \E m \in ModelIds, text \in CanonTexts : Ingest(m, text)
    \/ \E m \in ModelIds : ExternalText(m, Plain)
    \/ \E m \in ModelIds, n \in EditedTokenCounts : ExternalTokenCount(m, n)
    \/ BuilderMain(DefaultConfig)
    \/ StepA
    \/ StepB
    \/ StepC
    \/ EmbedSelect(Builder)
    \/ EmbedOk(Builder, "e1")

SpecCanon == Init /\ [][NextCanon]_vars

-----------------------------------------------------------------------------
(* Properties of exclusion and canonical mapping *)

\* a step in which the builder's canonical mapping pass runs
CanonPass == st[Builder].pc = "canonical" /\ st'[Builder].pc = "chunking"

NonExcluded(cards) ==
    {m \in ModelIds : HasCard(cards, m) /\ ~cards[m].excluded_from_rag}

Members(cards, h) == {m \in NonExcluded(cards) : cards[m].card_hash = h}

MetricOrZero(v) == IF v = NullInt THEN 0 ELSE v[1]

\* downloads descending, then likes descending, then entity id ascending
ComesBefore(pop, m1, m2) ==
    \/ MetricOrZero(pop[m1].downloads) > MetricOrZero(pop[m2].downloads)
    \/ /\ MetricOrZero(pop[m1].downloads) = MetricOrZero(pop[m2].downloads)
       /\ \/ MetricOrZero(pop[m1].likes) > MetricOrZero(pop[m2].likes)
          \/ /\ MetricOrZero(pop[m1].likes) = MetricOrZero(pop[m2].likes)
             /\ m1 < m2

\* C1: in every step, of any pipeline phase or any external change, a record
\* that is excluded stays excluded and keeps the exclusion reason it has.
C1_ExclusionMonotonic ==
    [][\A m \in ModelIds :
          (HasCard(model_cards, m) /\ model_cards[m].excluded_from_rag)
             => /\ model_cards'[m].excluded_from_rag
                /\ model_cards'[m].exclusion_reason = model_cards[m].exclusion_reason]_vars

\* C1 witness: a record excluded for having no content, whose text was then
\* replaced by a real card, is still excluded with that reason after the
\* exclusion rules of a second run.
C1_Witness ==
    /\ st[Builder].runs = 2
    /\ st[Builder].pc = "canonical"
    /\ \E m \in ModelIds :
          /\ HasCard(model_cards, m)
          /\ model_cards[m].card_text = Plain
          /\ model_cards[m].excluded_from_rag
          /\ model_cards[m].exclusion_reason = "No content"

\* C2: after a canonical mapping pass, hf.card_canon and hf.model_to_card hold
\* exactly the rows that the pass would write into empty tables from the
\* current cards and exclusion flags.
C2_FullRecompute ==
    [][CanonPass =>
          /\ card_canon' = UpsertCanon(<<>>, SelectNonExcluded(model_cards', models'))
          /\ model_to_card' =
                 UpsertModelToCard(<<>>, SelectNonExcluded(model_cards', models'))]_vars

\* C3: after a canonical mapping pass every hash of a non-excluded record has
\* its hf.card_canon row; the canonical model is the non-excluded member that
\* comes first by downloads descending, likes descending (missing as 0), id
\* ascending; duplicate_count is the number of non-excluded members.
C3_CanonicalChoice ==
    [][CanonPass =>
          \A m \in NonExcluded(model_cards) :
             LET h == model_cards[m].card_hash
                 members == Members(model_cards, h)
             IN  /\ h \in DOMAIN card_canon'
                 /\ card_canon'[h].canonical_model_id \in members
                 /\ \A o \in members \ {card_canon'[h].canonical_model_id} :
                       ComesBefore(models, card_canon'[h].canonical_model_id, o)
                 /\ card_canon'[h].duplicate_count = Cardinality(members)]_vars

\* C3 witness: right after a canonical mapping pass, a group of two
\* non-excluded cards whose canonical model is the one with the higher id,
\* chosen for its popularity.
C3_Witness ==
    /\ st[Builder].pc = "chunking"
    /\ Cardinality(NonExcluded(model_cards)) = 2
    /\ \E h \in DOMAIN card_canon :
          /\ Members(model_cards, h) = {1, 2}
          /\ card_canon[h].duplicate_count = 2
          /\ card_canon[h].canonical_model_id = 2
          /\ ComesBefore(models, 2, 1)

\* texts that differ only in whitespace at the end of lines or in the
\* line-ending convention
SameButTrailing(t1, t2) ==
    RStripLines(Split(LineEndings(t1), LF)) = RStripLines(Split(LineEndings(t2), LF))

\* C4: two stored cards whose texts differ only in trailing whitespace or
\* line endings have the same card_hash.
C4_TrailingWhitespaceSameHash ==
    \A m1, m2 \in ModelIds :
       (/\ HasCard(model_cards, m1)
        /\ HasCard(model_cards, m2)
        /\ SameButTrailing(model_cards[m1].card_text, model_cards[m2].card_text))
          => model_cards[m1].card_hash = model_cards[m2].card_hash

-----------------------------------------------------------------------------
(* The builder's chunking: cards that meet every path of the chunker, one
   popularity, environments that differ in version, target and limit, and an
   embedding service that answers, limits the rate or fails *)

InitChunk ==
    /\ Init
    /\ models = [m \in ModelIds |-> [downloads |-> <<100>>, likes |-> <<5>>]]

ChunkTexts == {Plain, TrailingSpace, Headed, WithSpecial}

BuilderChunkConfigs ==
    {DefaultConfig,
     ConfigOf("hf_chunker_v2", <<900, 120>>, 0),
     ConfigOf("hf_chunker_v1", <<30, 5>>, 0),
     ConfigOf("hf_chunker_v1", <<900, 120>>, 1)}

NextChunk ==
    \/ \E m \in ModelIds, text \in ChunkTexts : Ingest(m, text)
    \/ \E config \in BuilderChunkConfigs : BuilderMain(config)
    \/ StepA
    \/ StepB
    \/ StepC
    \/ EmbedSelect(Builder)
    \/ EmbedOk(Builder, "e1")
    \/ EmbedRateLimit(Builder)
    \/ EmbedError(Builder)

SpecChunk == InitChunk /\ [][NextChunk]_vars

-----------------------------------------------------------------------------
(* The two scripts against the same store, in the default environment: cards
   that the two normalizers treat differently, and an embedding service that
   answers with one vector or another, or fails *)

EmbedTexts == {Plain, TrailingNewline}

NextEmbed ==
    \/ \E m \in ModelIds, text \in EmbedTexts : Ingest(m, text)
    \/ BuilderMain(DefaultConfig)
    \/ StepA
    \/ StepB
    \/ StepC
    \/ \E p \in Procs : EmbedSelect(p)
    \/ \E p \in Procs, embedding \in EmbeddingVectors : EmbedOk(p, embedding)
    \/ \E p \in Procs : EmbedError(p)
    \/ ReprocessorMain(DefaultConfig)
    \/ \E missing_cards \in MissingCards(card_canon, model_cards, card_chunks) :
          ProcessMissing(missing_cards)

SpecEmbed == InitChunk /\ [][NextEmbed]_vars

-----------------------------------------------------------------------------
(* Properties of embedding *)

\* C5: no step replaces an embedding that is stored: a chunk row's embedding
\* only ever goes from null to a value, once.
C5_EmbeddingWrittenOnce ==
    [][\A id \in 1..Len(card_chunks) :
          card_chunks[id].embedding # NULL
             => card_chunks'[id].embedding = card_chunks[id].embedding]_vars

\* the script's latest embedding phase follows an earlier phase of the same
\* script under the same pair, and no chunk row was added between their SELECTs
SecondPhase(p) ==
    /\ hist.phase[p].known
    /\ hist.previous[p].known
    /\ hist.phase[p].pair = hist.previous[p].pair
    /\ hist.phase[p].rows = hist.previous[p].rows

-----------------------------------------------------------------------------
(* Properties of chunking *)

NoChunkingFailure(failures) ==
    \A i \in 1..Len(failures) : failures[i].step # "chunking"

\* C7: when a builder run with no limit and no chunking failure is complete,
\* and no card was stored or changed while it ran, every card is excluded or
\* mapped to a hash that has a chunk row under the run's pair.
C7_EveryDocumentCovered ==
    (/\ st[Builder].pc = "idle"
     /\ st[Builder].runs > 0
     /\ hist.quiet
     /\ st[Builder].config.max_canon_models = 0
     /\ NoChunkingFailure(st[Builder].failures))
       => \A m \in ModelIds :
             HasCard(model_cards, m)
                => \/ model_cards[m].excluded_from_rag
                   \/ /\ m \in DOMAIN model_to_card
                      /\ \E i \in 1..Len(card_chunks) :
                            /\ card_chunks[i].card_hash = model_to_card[m]
                            /\ RowPair(card_chunks[i]) = Pair(st[Builder].config)

SameChunking(c1, c2) ==
    /\ Pair(c1) = Pair(c2)
    /\ c1.chunk_target = c2.chunk_target
    /\ c1.chunk_overlap = c2.chunk_overlap

\* C8: under one chunker version, embedding model, target and overlap, a card
\* that the builder and the reprocessor have both chunked, with the same text
\* and token count, got the same list of chunks from both.
C8_SameChunksFromBothScripts ==
    LET b == hist.chunking[Builder]
        r == hist.chunking[Reprocessor]
    IN  (b.known /\ r.known /\ SameChunking(b.config, r.config))
           => \A i \in 1..Len(b.cards), j \in 1..Len(r.cards) :
                 b.cards[i] = r.cards[j] => b.results[i] = r.results[j]

\* a step in which the builder's chunking phase runs
ChunkPass == st[Builder].pc = "chunking" /\ st'[Builder].pc = "embed"

\* C9: a chunking phase of the builder that runs with the configuration and
\* the selected cards of the builder's chunking phase before it inserts no
\* chunk row and leaves every chunk row as it is; the run goes on to embed.
C9_RerunInsertsNothing ==
    [][(/\ ChunkPass
        /\ hist.chunking[Builder].known
        /\ hist.chunking[Builder].config = st[Builder].config
        /\ hist.chunking[Builder].cards =
              CanonicalCards(card_canon, model_cards,
                             st[Builder].config.max_canon_models))
          => card_chunks' = card_chunks]_vars

\* C9 witness: the builder's second run has chunked the same cards under the
\* same configuration as its first, whose chunk rows are stored.
C9_Witness ==
    /\ st[Builder].pc = "embed"
    /\ st[Builder].runs = 2
    /\ hist.chunking[Builder].repeated
    /\ hist.chunking[Builder].cards # <<>>
    /\ \E i \in 1..Len(card_chunks) :
          card_chunks[i].card_hash = hist.chunking[Builder].cards[1].card_hash

\* C10: a step of a script that runs under one (chunker version, embedding
\* model) pair leaves every chunk row of another pair as it is, removes no
\* row, and adds rows under its own pair only.
C10_OtherPairsUntouched ==
    [][\A p \in Procs :
          st'[p] # st[p]
             => /\ Len(card_chunks') >= Len(card_chunks)
                /\ \A id \in 1..Len(card_chunks) :
                      RowPair(card_chunks[id]) # Pair(st'[p].config)
                         => card_chunks'[id] = card_chunks[id]
                /\ \A id \in (Len(card_chunks) + 1)..Len(card_chunks') :
                      RowPair(card_chunks'[id]) = Pair(st'[p].config)]_vars

\* C10 witness: a builder run under hf_chunker_v2 is complete and has embedded
\* a chunk of its pair, while a chunk row of hf_chunker_v1 still waits for its
\* embedding.
C10_Witness ==
    /\ st[Builder].pc = "idle"
    /\ st[Builder].runs = 2
    /\ st[Builder].config.chunker_version = "hf_chunker_v2"
    /\ \E i, j \in 1..Len(card_chunks) :
          /\ card_chunks[i].chunker_version = "hf_chunker_v1"
          /\ card_chunks[i].embedding = NULL
          /\ card_chunks[j].chunker_version = "hf_chunker_v2"
          /\ card_chunks[j].embedding # NULL

-----------------------------------------------------------------------------
(* Kill and restart: the builder alone, with BATCH_SIZE 100 or 1, killed
   during its embedding phase or refused by the embedding service as long as
   a later run is to come, and started again as long as runs are left; the
   last run meets a service that answers and is not killed *)

ResumeTexts == {Plain, TrailingNewline}

ResumeConfigs == {DefaultConfig, [DefaultConfig EXCEPT !.batch_size = 1]}

NextResume ==
    \/ \E m \in ModelIds, text \in ResumeTexts : Ingest(m, text)
    \/ \E config \in ResumeConfigs : BuilderMain(config)
    \/ StepA
    \/ StepB
    \/ StepC
    \/ EmbedSelect(Builder)
    \/ EmbedOk(Builder, "e1")
    \/ (st[Builder].runs < MaxRuns /\ EmbedError(Builder))
    \/ (st[Builder].runs < MaxRuns /\ Kill(Builder))

\* every step of the builder is weakly fair; for StepC, which is enabled
\* exactly while the builder is at its chunking step and whose step leaves it,
\* weak fairness is stated as what it amounts to
SpecResume ==
    /\ InitChunk
    /\ [][NextResume]_vars
    /\ WF_vars(\E config \in ResumeConfigs : BuilderMain(config))
    /\ WF_vars(StepA)
    /\ WF_vars(StepB)
    /\ WF_vars(EmbedSelect(Builder))
    /\ WF_vars(EmbedOk(Builder, "e1"))
    /\ []<>(st[Builder].pc # "chunking")

\* the ids chunk rows can take: each text of ResumeTexts fits one chunk
ResumeChunkIds == 1..Cardinality(ResumeTexts)

EmbeddedOnlyGrows ==
    \A id \in 1..Len(card_chunks) :
       card_chunks[id].embedding # NULL => card_chunks'[id].embedding # NULL

IsChunkOfPair(id) ==
    /\ id \in 1..Len(card_chunks)
    /\ RowPair(card_chunks[id]) = Pair(DefaultConfig)

IsEmbedded(id) ==
    /\ id \in 1..Len(card_chunks)
    /\ card_chunks[id].embedding # NULL

\* C11: through kills and restarts of the builder the set of chunk rows with a
\* committed embedding only grows, and when the last run is neither killed nor
\* refused by the service, every chunk row of the pair gets an embedding.
C11_ResumeEmbedsEverything ==
    /\ [][EmbeddedOnlyGrows]_vars
    /\ \A id \in ResumeChunkIds : IsChunkOfPair(id) ~> IsEmbedded(id)

\* C11 witness: the builder was killed during an embedding phase, was started
\* again, and every chunk row of the two cards has its embedding.
C11_Witness ==
    /\ hist.kills > 0
    /\ st[Builder].pc = "idle"
    /\ st[Builder].runs = MaxRuns
    /\ Len(card_chunks) = 2
    /\ \A id \in 1..Len(card_chunks) : card_chunks[id].embedding # NULL

-----------------------------------------------------------------------------
(* Properties of retries and failures *)

\* a step in which the script calls the embedding service
CallStep(p) ==
    /\ st[p].pc = "embedding"
    /\ st'[p] # st[p]
    /\ hist'.kills = hist.kills

\* C12: a call of the embedding service is one of at most 5 attempts for its
\* chunk; an attempt after the first follows a rate-limit answer to the
\* attempt before it for the same chunk, and after any other answer the
\* script leaves the chunk.
C12_AtMostFiveCalls ==
    [][\A p \in Procs :
          CallStep(p)
             => /\ st[p].attempt <= 5
                /\ st[p].attempt > 1
                      => hist.call[p] =
                            [chunk |-> st[p].chunks_to_embed[st[p].done + 1],
                             n |-> st[p].attempt - 1, response |-> "rate_limit"]
                /\ st'[p].done = st[p].done
                      => /\ st'[p].pc = "embedding"
                         /\ hist'.call[p].response = "rate_limit"]_vars

\* C12 witness: the builder is at its fifth attempt for a chunk, after four
\* rate-limit answers.
C12_Witness ==
    /\ st[Builder].pc = "embedding"
    /\ st[Builder].attempt = 5
    /\ hist.call[Builder].n = 4
    /\ hist.call[Builder].response = "rate_limit"

\* the number of entries of a failure list for the embedding of a chunk row
EmbeddingFailures(failures, id) ==
    Cardinality({i \in 1..Len(failures) :
                    /\ failures[i].step = "embedding"
                    /\ failures[i].chunk_id = id})

\* the number of entries of a failure list for the chunking of a card
ChunkingFailuresOf(failures, card_hash) ==
    Cardinality({i \in 1..Len(failures) :
                    /\ failures[i].step = "chunking"
                    /\ failures[i].card_hash = card_hash})

\* a chunk row with the chunk's hash is stored under the pair of the config
IsStored(chunk, config) ==
    \E id \in 1..Len(card_chunks) :
        /\ card_chunks[id].chunk_hash = chunk.chunk_hash
        /\ RowPair(card_chunks[id]) = Pair(config)

\* C13: once the builder is past its chunking phase, every card of the phase
\* whose chunking failed has exactly one entry in the failure list, and every
\* other card has none and has its chunks stored; once the builder is past its
\* embedding phase, every chunk the phase selected either has its embedding
\* and no entry in the failure list, or has exactly one entry and a null
\* embedding.
C13_FailuresDoNotStopTheRun ==
    LET b == st[Builder]
        c == hist.chunking[Builder]
    IN  /\ (b.pc \in {"embed", "embedding", "idle"} /\ b.runs > 0 /\ hist.kills = 0)
              => \A i \in 1..Len(c.cards) :
                    IF c.results[i].failed
                    THEN ChunkingFailuresOf(b.failures, c.cards[i].card_hash) = 1
                    ELSE /\ ChunkingFailuresOf(b.failures, c.cards[i].card_hash) = 0
                         /\ \A k \in 1..Len(c.results[i].chunks) :
                               IsStored(c.results[i].chunks[k], b.config)
        /\ (b.pc = "idle" /\ b.runs > 0 /\ hist.kills = 0)
              => \A k \in 1..Len(b.chunks_to_embed) :
                    LET id == b.chunks_to_embed[k]
                    IN  \/ /\ card_chunks[id].embedding # NULL
                           /\ EmbeddingFailures(b.failures, id) = 0
                        \/ /\ card_chunks[id].embedding = NULL
                           /\ EmbeddingFailures(b.failures, id) = 1

-----------------------------------------------------------------------------
(* Failures of the embedding loop: the builder alone under the default
   environment, with an embedding service that may fail and a database that
   may refuse an UPDATE *)

FailureTexts == {Plain, TrailingNewline}

NextFailures ==
    \/ \E m \in ModelIds, text \in FailureTexts : Ingest(m, text)
    \/ BuilderMain(DefaultConfig)
    \/ StepA
    \/ StepB
    \/ StepC
    \/ EmbedSelect(Builder)
    \/ EmbedOk(Builder, "e1")
    \/ EmbedError(Builder)
    \/ EmbedUpdateError(Builder)

SpecFailures == InitChunk /\ [][NextFailures]_vars

-----------------------------------------------------------------------------
(* The exclusion pass: cards with and without content whose token counts are
   set to the values around the two thresholds, and the builder under the
   default environment *)

ExclusionTexts == {Plain, Sentinel}

BoundaryTokenCounts == {49, 50, 100000, 100001}

NextExclusion ==
    \/ \E m \in ModelIds, text \in ExclusionTexts : Ingest(m, text)
    \/ \E m \in ModelIds, n \in BoundaryTokenCounts : ExternalTokenCount(m, n)
    \/ BuilderMain(DefaultConfig)
    \/ StepA
    \/ StepB
    \/ StepC
    \/ EmbedSelect(Builder)
    \/ EmbedOk(Builder, "e1")

SpecExclusion == Init /\ [][NextExclusion]_vars

\* a step in which the builder's exclusion pass runs
ExclusionStep == st[Builder].pc = "exclusion" /\ st'[Builder].pc = "canonical"

\* the first of the three rules that a record matches, 0 when none does
FirstRule(row) ==
    IF row.card_text = Sentinel THEN 1
    ELSE IF row.token_count < 50 THEN 2
    ELSE IF row.token_count > 100000 THEN 3
    ELSE 0

\* the records that the step excludes with the reason of a rule
NewlyExcluded(rule) ==
    {m \in ModelIds : /\ HasCard(model_cards, m)
                      /\ ~model_cards[m].excluded_from_rag
                      /\ model_cards'[m].excluded_from_rag
                      /\ model_cards'[m].exclusion_reason = ExclusionReason(rule)}

\* C14: an exclusion pass excludes a record that was not excluded exactly when
\* the record is the sentinel or has a token count below 50 or above 100000,
\* with the reason of the first rule it matches, and the count it reports for
\* each rule is the number of records it excluded with that rule's reason.
C14_ExclusionPass ==
    [][ExclusionStep
          => /\ \A m \in ModelIds :
                   (HasCard(model_cards, m) /\ ~model_cards[m].excluded_from_rag)
                      => LET rule == FirstRule(model_cards[m])
                         IN  /\ model_cards'[m].excluded_from_rag <=> rule # 0
                             /\ rule # 0 => model_cards'[m].exclusion_reason =
                                               ExclusionReason(rule)
             /\ st'[Builder].stats.excluded_no_content = Cardinality(NewlyExcluded(1))
             /\ st'[Builder].stats.excluded_too_short = Cardinality(NewlyExcluded(2))
             /\ st'[Builder].stats.excluded_too_long = Cardinality(NewlyExcluded(3))]_vars

\* C14 witness: after an exclusion pass a card that is not the sentinel and has
\* a token count of exactly 100000 is not excluded, while the pass reports one
\* record without content.
C14_Witness ==
    /\ st[Builder].pc = "canonical"
    /\ st[Builder].stats.excluded_no_content = 1
    /\ st[Builder].stats.total_excluded = 1
    /\ \E m \in ModelIds :
          /\ HasCard(model_cards, m)
          /\ model_cards[m].card_text # Sentinel
          /\ model_cards[m].token_count = 100000
          /\ ~model_cards[m].excluded_from_rag

-----------------------------------------------------------------------------
(* The ranking engine: app/ranking.py, called by the three search tools *)

\* A Python str is the sequence of its code points; a dict is a function on
\* its keys.  A NULL column is a key the row does not carry: ranking.py reads
\* rows with .get() only, which gives None for an absent key as for a None.

\* str.lower() on one ASCII character
LowerChar(c) ==
    IF c \in 65..90 THEN c + 32 ELSE c

\* str.lower()
lower(s) ==
    [i \in 1..Len(s) |-> LowerChar(s[i])]

\* str.strip(): leading and trailing blanks removed
RECURSIVE strip(_)
strip(s) ==
    IF s = <<>> THEN s
    ELSE IF s[1] = 32 THEN strip(Tail(s))
    ELSE IF s[Len(s)] = 32 THEN strip(SubSeq(s, 1, Len(s) - 1))
    ELSE s

\* str.startswith(prefix)
startswith(s, prefix) ==
    /\ Len(prefix) <= Len(s)
    /\ SubSeq(s, 1, Len(prefix)) = prefix

\* sub in s
IsIn(sub, s) ==
    \E i \in 0..(Len(s) - Len(sub)) : SubSeq(s, i + 1, i + Len(sub)) = sub

\* a < b for two str, code point by code point; a number in a sort key is
\* held as a one-element sequence, so that every component of a key compares
\* this way
RECURSIVE StrLess(_, _)
StrLess(a, b) ==
    IF b = <<>> THEN FALSE
    ELSE IF a = <<>> THEN TRUE
    ELSE IF a[1] # b[1] THEN a[1] < b[1]
    ELSE StrLess(Tail(a), Tail(b))

\* k1 < k2 for two tuples: the first component that differs decides
RECURSIVE TupleLess(_, _)
TupleLess(k1, k2) ==
    IF k2 = <<>> THEN FALSE
    ELSE IF k1 = <<>> THEN TRUE
    ELSE IF k1[1] # k2[1] THEN StrLess(k1[1], k2[1])
    ELSE TupleLess(Tail(k1), Tail(k2))

\* d[k] = v
SetItem(d, k, v) ==
    [f \in DOMAIN d \cup {k} |-> IF f = k THEN v ELSE d[f]]

\* del d[k]
DelItem(d, k) ==
    [f \in DOMAIN d \ {k} |-> d[f]]

\* d.get(k, default)
Get(d, k, default) ==
    IF k \in DOMAIN d THEN d[k] ELSE default

\* d.get(k) or default, for a number: None and 0 both give the default
GetOr(d, k, default) ==
    IF k \in DOMAIN d /\ d[k] # 0 THEN d[k] ELSE default

\* The place of the n-th item among the items before it, already in order:
\* after every item whose key is not greater (Python's sort is stable).
InsertSorted(before, keys, n) ==
    LET place == Cardinality({i \in 1..Len(before) :
                                ~TupleLess(keys[n], keys[before[i]])})
    IN  SubSeq(before, 1, place) \o <<n>>
            \o SubSeq(before, place + 1, Len(before))

\* sorted(items, key=...): the input positions of the items, in key order
RECURSIVE sorted(_, _)
sorted(keys, n) ==
    IF n = 0 THEN <<>> ELSE InsertSorted(sorted(keys, n - 1), keys, n)

\* enumerate(sorted_items): where the item given at place j ends up
PlaceOf(order, j) ==
    CHOOSE i \in 1..Len(order) : order[i] = j

\* The rank taken as the 0-based place itself
WithRankFromZero(item, i) ==
    SetItem(item, "rank", i)

\* inst['rank'] = i + 1, for the item at 0-based place i
WithRank(item, i) ==
    SetItem(item, "rank", i + 1)

\* What a ranking call leaves behind: the list it returns, and the caller's
\* list, whose records are the very objects of the returned list.
Ranked(objects, order) ==
    [returned |-> [i \in 1..Len(order) |-> objects[order[i]]],
     candidates |-> objects]

\* The key of one instance, lines 30-36
ComputeSortKey(inst) ==
    << <<GetOr(inst, "price_monthly", 999999)>>,
       <<0 - GetOr(inst, "gpu_memory_gb", 0)>>,
       <<0 - GetOr(inst, "gpu_count", 0)>>,
       Get(inst, "provider", <<>>),
       Get(inst, "name", <<>>) >>

\* The two loops of rank_compute_instances on one instance ranked at place i
ComputeObject(inst, i) ==
    LET keyed == SetItem(SetItem(inst, "_meets_constraints", TRUE),
                         "_sort_key", ComputeSortKey(inst))
    IN  DelItem(DelItem(WithRank(keyed, i), "_meets_constraints"), "_sort_key")

rank_compute_instances(instances, filters) ==
    LET keys == [j \in 1..Len(instances) |-> ComputeSortKey(instances[j])]
        order == sorted(keys, Len(instances))
    IN  Ranked([j \in 1..Len(instances) |->
                    ComputeObject(instances[j], PlaceOf(order, j) - 1)],
               order)

\* The match score without the branch of line 80: an exact match scores as a
\* name that starts with the query
MatchScoreWithoutExact(pkg, query_lower) ==
    LET name_lower == lower(Get(pkg, "name", <<>>))
        desc_lower == lower(Get(pkg, "description", <<>>))
    IN  IF startswith(name_lower, query_lower) THEN 900
        ELSE IF IsIn(query_lower, name_lower) THEN 800
        ELSE IF IsIn(query_lower, desc_lower) THEN 700
        ELSE 0

\* The match score of one package, lines 76-89
MatchScore(pkg, query_lower) ==
    LET name_lower == lower(Get(pkg, "name", <<>>))
        desc_lower == lower(Get(pkg, "description", <<>>))
    IN  IF name_lower = query_lower THEN 1000
        ELSE IF startswith(name_lower, query_lower) THEN 900
        ELSE IF IsIn(query_lower, name_lower) THEN 800
        ELSE IF IsIn(query_lower, desc_lower) THEN 700
        ELSE 0

\* The key of one package, lines 92-97
K8sSortKey(pkg, query_lower) ==
    << <<0 - MatchScore(pkg, query_lower)>>,
       <<0 - GetOr(pkg, "stars", 0)>>,
       <<IF Get(pkg, "official", FALSE) THEN 0 ELSE 1>>,
       lower(Get(pkg, "name", <<>>)) >>

\* The two loops of rank_k8s_packages on one package ranked at place i
K8sObject(pkg, query_lower, i) ==
    DelItem(WithRank(SetItem(pkg, "_sort_key", K8sSortKey(pkg, query_lower)), i),
            "_sort_key")

rank_k8s_packages(packages, query) ==
    LET query_lower == strip(lower(query))
        keys == [j \in 1..Len(packages) |-> K8sSortKey(packages[j], query_lower)]
        order == sorted(keys, Len(packages))
    IN  Ranked([j \in 1..Len(packages) |->
                    K8sObject(packages[j], query_lower, PlaceOf(order, j) - 1)],
               order)

\* Scores are held exactly: a relevance in tenths, a popularity in units of
\* ln 2 (the download and like counts of the model are of the form 2^k - 1),
\* an output score in units of 0.0001.

\* math.log(n), in units of ln 2, for n a power of two
RECURSIVE Log2(_)
Log2(n) ==
    IF n <= 1 THEN 0 ELSE 1 + Log2(n \div 2)

\* Lines 141-143
Popularity(model) ==
    Log2(GetOr(model, "downloads", 0) + 1) + Log2(GetOr(model, "likes", 0) + 1)

\* Lines 139-145
RECURSIVE MaxPopularity(_)
MaxPopularity(model_list) ==
    IF model_list = <<>> THEN 0
    ELSE LET rest == MaxPopularity(Tail(model_list))
             popularity == Popularity(Head(model_list))
         IN  IF popularity > rest THEN popularity ELSE rest

\* Lines 149-150, in tenths
Relevance(model, relevance_scores) ==
    Get(relevance_scores, Get(model, "model_id", <<>>), 5)

\* Line 153 gives popularity / max_popularity, or 0 when the maximum is 0:
\* the denominator of the scores of one call
ScoreUnit(max_popularity) ==
    IF max_popularity > 0 THEN max_popularity ELSE 1

\* Line 156 in real numbers, as a count of 1 / (100 * ScoreUnit)
CombinedScore(relevance, popularity, max_popularity) ==
    6 * relevance * ScoreUnit(max_popularity)
        + (IF max_popularity > 0 THEN 40 * popularity ELSE 0)

\* Lines 143-156 are computed in IEEE-754 doubles.  For every operand triple
\* of the model <<relevance, popularity, max_popularity>>, the double that
\* 0.6 * relevance + 0.4 * (math.log(downloads + 1) / max_popularity) gives,
\* less the real value, in units of 10^-18 (0.6 * 0.9 + 0.4 * 0.1 gives
\* 0.5800000000000001, which is 71 units above 0.58).
FloatErrors ==
    { <<1, 0, 0, -2>>, <<5, 0, 0, -11>>, <<7, 0, 0, -16>>, <<9, 0, 0, 36>>,
      <<1, 0, 1, -2>>, <<5, 0, 1, -11>>, <<7, 0, 1, -16>>, <<9, 0, 1, 36>>,
      <<1, 1, 1, 20>>, <<5, 1, 1, -44>>, <<7, 1, 1, 62>>, <<9, 1, 1, 58>>,
      <<1, 0, 9, -2>>, <<5, 0, 9, -11>>, <<7, 0, 9, -16>>, <<9, 0, 9, 36>>,
      <<1, 1, 9, 6>>, <<5, 1, 9, -2>>, <<7, 1, 9, -7>>, <<9, 1, 9, -11>>,
      <<1, 9, 9, 20>>, <<5, 9, 9, -44>>, <<7, 9, 9, 62>>, <<9, 9, 9, 58>>,
      <<1, 0, 10, -2>>, <<5, 0, 10, -11>>, <<7, 0, 10, -16>>, <<9, 0, 10, 36>>,
      <<1, 1, 10, 6>>, <<5, 1, 10, -31>>, <<7, 1, 10, -36>>, <<9, 1, 10, 71>>,
      <<1, 9, 10, 40>>, <<5, 9, 10, 31>>, <<7, 9, 10, 27>>, <<9, 9, 10, 133>>,
      <<1, 10, 10, 20>>, <<5, 10, 10, -44>>, <<7, 10, 10, 62>>,
      <<9, 10, 10, 58>> }

FloatError(relevance, popularity, max_popularity) ==
    (CHOOSE e \in FloatErrors : /\ e[1] = relevance
                                /\ e[2] = popularity
                                /\ e[3] = max_popularity)[4]

\* round(combined_score, 4): no score of the model lies half-way between two
\* multiples of 0.0001, and the rounding error of the double is far smaller
Round4(score, max_popularity) ==
    (200 * score + ScoreUnit(max_popularity)) \div (2 * ScoreUnit(max_popularity))

\* The key of one model, lines 161-164: -combined_score as the double it is
\* (the real value, then the rounding error, which is far smaller than the
\* step between two real values of one call), then the model id
HfSortKey(model, relevance, max_popularity) ==
    << <<0 - CombinedScore(relevance, Popularity(model), max_popularity)>>,
       <<0 - FloatError(relevance, Popularity(model), max_popularity)>>,
       Get(model, "model_id", <<>>) >>

\* The three loops of rank_hf_models on one model ranked at place i
HfObject(model, relevance, max_popularity, i) ==
    LET scored ==
            SetItem(SetItem(SetItem(SetItem(model,
                "_popularity", Popularity(model)),
                "relevance_score", 1000 * relevance),
                "combined_score",
                    Round4(CombinedScore(relevance, Popularity(model),
                                         max_popularity), max_popularity)),
                "_sort_key", HfSortKey(model, relevance, max_popularity))
    IN  DelItem(DelItem(WithRank(scored, i), "_popularity"), "_sort_key")

rank_hf_models(model_list, relevance_scores) ==
    LET max_popularity == MaxPopularity(model_list)
        keys == [j \in 1..Len(model_list) |->
                    HfSortKey(model_list[j], Relevance(model_list[j], relevance_scores),
                              max_popularity)]
        order == sorted(keys, Len(model_list))
    IN  Ranked([j \in 1..Len(model_list) |->
                    HfObject(model_list[j], Relevance(model_list[j], relevance_scores),
                             max_popularity, PlaceOf(order, j) - 1)],
               order)

-----------------------------------------------------------------------------
(* Ranking calls: the candidates are rows as the search tools select them *)

MaxCandidates == 3

\* "aws", "gcp"; "a", "b"
Providers ==
    {<<97, 119, 115>>, <<103, 99, 112>>}

InstanceNames ==
    {<<97>>, <<98>>}

\* compute_tool.py, lines 88-106: the columns the ranking can tell apart.
\* The GPU memory is selected as vram_gb, and a NULL price as 0.
InstanceRows ==
    [provider : Providers, name : InstanceNames, gpu_count : {1, 2},
     vram_gb : {40, 80}, price_monthly : {0, 100, 200}]

\* A list of rows as a tool hands it over: a row's id is its place in the
\* list, so two rows of one list are never the same row.
Numbered(rows, key) ==
    [i \in 1..Len(rows) |-> SetItem(rows[i], key, i)]

\* "ml", "ML", "mlx", "xml", "x"; the description "ML"
PackageTexts ==
    {[name |-> <<109, 108>>], [name |-> <<77, 76>>],
     [name |-> <<109, 108, 120>>], [name |-> <<120, 109, 108>>],
     [name |-> <<120>>, description |-> <<77, 76>>], [name |-> <<120>>]}

\* k8s_tool.py, lines 30-61; a package without stars has no stars key
PackageRows ==
    {IF stars = 0 THEN SetItem(text, "official", official)
     ELSE SetItem(SetItem(text, "official", official), "stars", stars) :
        text \in PackageTexts, official \in BOOLEAN, stars \in {0, 10, 500}}

\* "ml", " ML"
Queries ==
    {<<109, 108>>, <<32, 77, 76>>}

\* "a", "m", "z"
RankedModelIds ==
    {<<97>>, <<109>>, <<122>>}

\* 2^k - 1 for k = 0, 1, 9, 10
DownloadCounts ==
    {0, 1, 511, 1023}

\* 0.1, 0.7, 0.9; 0 stands for a model without a relevance score
RelevanceTenths ==
    {0, 1, 7, 9}

\* hf_tool.py, lines 139-154: models of distinct ids, and the relevance
\* scores that go with them
ModelCall(n, ids, downloads, relevance) ==
    [models |-> [i \in 1..n |-> [model_id |-> ids[i],
                                 downloads |-> downloads[i], likes |-> 0]],
     relevance_scores |->
        [id \in {ids[i] : i \in {j \in 1..n : relevance[j] # 0}} |->
            relevance[CHOOSE i \in 1..n : ids[i] = id]]]

\* A call about to be made: the function, the caller's candidate list, the
\* second argument; given is the candidate list as it was handed over.
Call(fn, candidates, arg) ==
    [pc |-> "called", fn |-> fn, candidates |-> candidates, arg |-> arg,
     given |-> candidates, returned |-> <<>>]

\* Every call on at most MaxCandidates candidates
InitRanking ==
    /\ InitIndex
    /\ search = NoSearch
    /\ helper = NoHelper
    /\ models = [m \in ModelIds |-> [downloads |-> <<100>>, likes |-> <<5>>]]
    /\ \E n \in 0..MaxCandidates :
        \/ \E instances \in [1..n -> InstanceRows] :
                ranking = Call("rank_compute_instances",
                               Numbered(instances, "id"), [gpu_needed |-> TRUE])
        \/ \E packages \in [1..n -> PackageRows], query \in Queries :
                ranking = Call("rank_k8s_packages",
                               Numbered(packages, "package_id"), query)
        \/ \E ids \in [1..n -> RankedModelIds],
               downloads \in [1..n -> DownloadCounts],
               relevance \in [1..n -> RelevanceTenths] :
                /\ \A i, j \in 1..n : ids[i] = ids[j] => i = j
                /\ ranking = Call("rank_hf_models",
                                  ModelCall(n, ids, downloads, relevance).models,
                                  ModelCall(n, ids, downloads, relevance).relevance_scores)

\* The call returns: the caller holds the returned list and its own list
Return(result) ==
    /\ ranking' = [ranking EXCEPT !.pc = "returned",
                                  !.candidates = result.candidates,
                                  !.returned = result.returned]
    /\ UNCHANGED <<models, model_cards, card_canon, model_to_card, card_chunks,
                   st, hist, search, helper>>

\* compute_tool.py, line 123
RankCompute ==
    /\ ranking.pc = "called"
    /\ ranking.fn = "rank_compute_instances"
    /\ Return(rank_compute_instances(ranking.candidates, ranking.arg))

\* k8s_tool.py, line 69
RankK8s ==
    /\ ranking.pc = "called"
    /\ ranking.fn = "rank_k8s_packages"
    /\ Return(rank_k8s_packages(ranking.candidates, ranking.arg))

\* hf_tool.py, line 167
RankHf ==
    /\ ranking.pc = "called"
    /\ ranking.fn = "rank_hf_models"
    /\ Return(rank_hf_models(ranking.candidates, ranking.arg))

NextRanking ==
    \/ RankCompute
    \/ RankK8s
    \/ RankHf

SpecRanking == InitRanking /\ [][NextRanking]_vars

-----------------------------------------------------------------------------
(* Properties of the ranking engine *)

\* The function of a call, applied to a candidate list and a second argument
Apply(fn, candidates, arg) ==
    CASE fn = "rank_compute_instances" -> rank_compute_instances(candidates, arg)
      [] fn = "rank_k8s_packages" -> rank_k8s_packages(candidates, arg)
      [] fn = "rank_hf_models" -> rank_hf_models(candidates, arg)

\* The same candidates, supplied in another order
Permuted(candidates, f) ==
    [i \in 1..Len(candidates) |-> candidates[f[i]]]

\* C15: for each of the three ranking functions, ranking any permutation of
\* the candidates of a call, with the same query or filters, gives the list
\* that the call returned.
C15_OrderIndependent ==
    ranking.pc = "returned" =>
        \A f \in Permutations(1..Len(ranking.given)) :
            Apply(ranking.fn, Permuted(ranking.given, f), ranking.arg).returned
                = ranking.returned

\* The returned record is the given candidate: it holds every field of the
\* candidate, with the candidate's value
IsCandidate(record, candidate) ==
    /\ DOMAIN candidate \subseteq DOMAIN record
    /\ \A k \in DOMAIN candidate : record[k] = candidate[k]

\* C16: each of the three ranking functions returns a permutation of its N
\* input candidates, none dropped and none duplicated, in which the candidate
\* at 0-based position i carries rank i + 1.
C16_DensePermutation ==
    ranking.pc = "returned" =>
        /\ Len(ranking.returned) = Len(ranking.given)
        /\ \E f \in Permutations(1..Len(ranking.given)) :
                \A i \in 1..Len(ranking.given) :
                    IsCandidate(ranking.returned[i], ranking.given[f[i]])
        /\ \A i \in 1..Len(ranking.returned) : ranking.returned[i]["rank"] = i

\* Three instances were ranked, and the first of the result is not the first
\* that was given.
C16_Witness ==
    /\ ranking.pc = "returned"
    /\ ranking.fn = "rank_compute_instances"
    /\ Len(ranking.given) = MaxCandidates
    /\ ~IsCandidate(ranking.returned[1], ranking.given[1])
    /\ IsCandidate(ranking.returned[1], ranking.given[MaxCandidates])

\* An instance has a monthly price: the tool selects a NULL price as 0
HasPrice(inst) ==
    inst.price_monthly # 0

\* GPU memory descending, GPU count descending, provider ascending, name
\* ascending, on the columns of the row
EqualPriceOrder(inst) ==
    << <<0 - inst.vram_gb>>, <<0 - inst.gpu_count>>, inst.provider, inst.name >>

\* Instance a may stand before instance b
MayPrecede(a, b) ==
    IF HasPrice(a) /\ HasPrice(b) /\ a.price_monthly # b.price_monthly
        THEN a.price_monthly < b.price_monthly
    ELSE IF HasPrice(a) # HasPrice(b) THEN HasPrice(a)
    ELSE ~TupleLess(EqualPriceOrder(b), EqualPriceOrder(a))

\* C17: in the output of the compute ranking a lower monthly price precedes
\* a higher one, an instance without a price follows every instance that has
\* one, and instances of equal price are ordered by GPU memory descending,
\* GPU count descending, provider ascending, name ascending.
C17_ComputeOrder ==
    (ranking.pc = "returned" /\ ranking.fn = "rank_compute_instances") =>
        \A i, j \in 1..Len(ranking.returned) :
            i < j => MayPrecede(ranking.returned[i], ranking.returned[j])

\* The match tier of a package for a query, compared case-insensitively and
\* without the blanks around the query: 4 for an exact name match, 3 when the
\* name starts with the query, 2 when the query is inside the name, 1 when it
\* is inside the description, 0 when nothing matches
Tier(pkg, query) ==
    LET q == lower(strip(query))
        name == lower(pkg.name)
        description == IF "description" \in DOMAIN pkg
                       THEN lower(pkg.description) ELSE <<>>
    IN  IF name = q THEN 4
        ELSE IF startswith(name, q) THEN 3
        ELSE IF IsIn(q, name) THEN 2
        ELSE IF IsIn(q, description) THEN 1
        ELSE 0

\* The stars of a package, a missing count as 0
Stars(pkg) ==
    IF "stars" \in DOMAIN pkg THEN pkg.stars ELSE 0

\* Package a may stand before package b of the same tier: more stars first,
\* then official before non-official, then the name ascending
MayPrecedeInTier(a, b) ==
    IF Stars(a) # Stars(b) THEN Stars(a) > Stars(b)
    ELSE IF a.official # b.official THEN a.official
    ELSE ~StrLess(lower(b.name), lower(a.name))

RelevanceOrHalf(model, relevance_scores) ==
    IF model.model_id \in DOMAIN relevance_scores
    THEN relevance_scores[model.model_id] ELSE 5

\* 0.6 x relevance + 0.4 x (popularity / maximum popularity), in real numbers,
\* for a candidate of the call that returned
ScoreOf(model) ==
    CombinedScore(RelevanceOrHalf(model, ranking.arg), Popularity(model),
                  MaxPopularity(ranking.given))

\* The candidate has relevance r tenths and normalized popularity p tenths
IsExample(model, r, p) ==
    /\ RelevanceOrHalf(model, ranking.arg) = r
    /\ MaxPopularity(ranking.given) > 0
    /\ 10 * Popularity(model) = p * MaxPopularity(ranking.given)

\* C19: the model ranking orders the candidates by combined score
\* descending, with relevance 0.5 for a candidate without a score and
\* normalized popularity 0 when the maximum popularity is 0; candidates of
\* equal combined score are ordered by id ascending; candidates with
\* relevance 0.9 / popularity 0.1 and relevance 0.1 / popularity 0.9 score
\* 0.58 and 0.42, and the first ranks above the second.
C19_ModelOrder ==
    (ranking.pc = "returned" /\ ranking.fn = "rank_hf_models") =>
        \A i, j \in 1..Len(ranking.returned) :
            LET a == ranking.returned[i]
                b == ranking.returned[j]
            IN  /\ i < j =>
                    /\ ScoreOf(a) >= ScoreOf(b)
                    /\ ScoreOf(a) = ScoreOf(b) => ~StrLess(b.model_id, a.model_id)
                /\ (IsExample(a, 9, 1) /\ IsExample(b, 1, 9)) =>
                    /\ a.combined_score = 5800
                    /\ b.combined_score = 4200
                    /\ i < j

\* C20: a ranking call leaves its arguments unchanged: after the call the
\* caller's candidate list and every record of it hold the fields and values
\* they held before it.
C20_ArgumentsUnchanged ==
    ranking.pc = "returned" => ranking.candidates = ranking.given

-----------------------------------------------------------------------------
(* The chunker's functions called on their own: chunk_text and
   extract_key_sections as one step each, _sliding_window_split one pass of
   its while loop at a time *)

MaxTokens == 7                   \* the longest token sequence handed to the split
MaxSections == 3                 \* the most sections of a text handed to the extraction
MaxPasses == 8                   \* passes of the split's loop that are followed

\* tokens[start:end] of Python: a negative position counts from the end, and
\* positions are clamped to 0..len
SliceIndex(i, n) == IF i < 0 THEN (IF i + n < 0 THEN 0 ELSE i + n) ELSE Min(i, n)

Slice(tokens, start, end) ==
    SubSeq(tokens, SliceIndex(start, Len(tokens)) + 1, SliceIndex(end, Len(tokens)))

\* "start = end - overlap" with the overlap left out
NextStartWithoutOverlap(end, overlap) == end

\* "start = end - overlap"
NextStart(end, overlap) == end - overlap

\* one pass of "while start < len(tokens)": the window is cut and appended,
\* and the loop breaks at the end of the tokens or moves start
Pass(loop) ==
    LET end == Min(loop.start + loop.target, Len(loop.tokens))
        cut == [loop EXCEPT !.chunks = Append(@, Decode(Slice(loop.tokens, loop.start, end))),
                            !.windows = Append(@, <<loop.start, end>>)]
    IN  IF end >= Len(loop.tokens) THEN [cut EXCEPT !.pc = "returned"]
        ELSE [cut EXCEPT !.start = NextStart(end, loop.overlap)]

\* the texts handed to chunk_text
ChunkerTexts == {Plain, TrailingSpace, Headed, WithSpecial, Sentinel}

\* (chunk_target, chunk_overlap) of the environment
ChunkerTargets == {<<900, 120>>, <<12000, 120>>, <<50, 5>>, <<30, 5>>, <<20, 5>>}

\* the texts handed to extract_key_sections: up to MaxSections sections, each
\* a heading with or without the keyword and a body of 1 or 6 tokens
SectionKinds == {<<"usage", 1>>, <<"usage", 6>>, <<"b", 1>>, <<"b", 6>>}

SectionText(kind) == <<"#", SP, kind[1], LF>> \o Rep(<<"a">>, kind[2])

SectionsText(kinds) == Join([i \in 1..Len(kinds) |-> SectionText(kinds[i])], <<LF>>)

Budgets == {8, 14, 20, 100}

\* the token sequence of length n handed to the split
TokensOf(n) == Encode([i \in 1..n |-> IF i % 2 = 1 THEN "a" ELSE "b"])

InitHelper ==
    /\ InitIndex
    /\ models = [m \in ModelIds |-> [downloads |-> <<100>>, likes |-> <<5>>]]
    /\ ranking = NoRanking
    /\ search = NoSearch
    /\ \/ \E text \in ChunkerTexts, pair \in ChunkerTargets :
            \E token_count \in {count_tokens(text)} \cup EditedTokenCounts :
                helper = [pc |-> "called", fn |-> "chunk_text", text |-> text,
                          token_count |-> token_count, target |-> pair[1],
                          overlap |-> pair[2], result |-> Raised]
       \/ \E n \in 1..MaxSections :
            \E kinds \in [1..n -> SectionKinds], max_tokens \in Budgets :
                helper = [pc |-> "called", fn |-> "extract_key_sections",
                          text |-> SectionsText(kinds), max_tokens |-> max_tokens,
                          result |-> <<>>]
       \/ \E n \in 0..MaxTokens, target \in 1..4, overlap \in 0..5 :
                helper = [pc |-> "called", fn |-> "_sliding_window_split",
                          tokens |-> TokensOf(n), target |-> target,
                          overlap |-> overlap, start |-> 0, chunks |-> <<>>,
                          windows |-> <<>>]

Untouched ==
    UNCHANGED <<models, model_cards, card_canon, model_to_card, card_chunks, st,
                hist, ranking, search>>

\* chunk_text(card_text, card_hash, token_count) returns or raises
ChunkText ==
    /\ helper.pc = "called"
    /\ helper.fn = "chunk_text"
    /\ helper' = [helper EXCEPT !.pc = "returned",
                                !.result = chunk_text(helper.text, compute_hash(helper.text),
                                                      helper.token_count, helper.target,
                                                      helper.overlap)]
    /\ Untouched

\* extract_key_sections(text, max_tokens) returns
ExtractKeySections ==
    /\ helper.pc = "called"
    /\ helper.fn = "extract_key_sections"
    /\ helper' = [helper EXCEPT !.pc = "returned",
                                !.result = extract_key_sections(helper.text,
                                                                helper.max_tokens)]
    /\ Untouched

\* _sliding_window_split: one test of the loop condition, and the pass that
\* follows when it holds
SplitPass ==
    /\ helper.pc = "called"
    /\ helper.fn = "_sliding_window_split"
    /\ Len(helper.windows) < MaxPasses
    /\ helper' = IF helper.start < Len(helper.tokens) THEN Pass(helper)
                 ELSE [helper EXCEPT !.pc = "returned"]
    /\ Untouched

NextHelper ==
    \/ ChunkText
    \/ ExtractKeySections
    \/ SplitPass

SpecHelper == InitHelper /\ [][NextHelper]_vars

-----------------------------------------------------------------------------
(* Properties of the chunker's functions *)

ChunkTextReturned ==
    /\ helper.pc = "returned"
    /\ helper.fn = "chunk_text"
    /\ ~helper.result.failed

DenseIndices(chunks) == \A i \in 1..Len(chunks) : chunks[i].chunk_index = i - 1

SingleChunkOf(chunks, text) ==
    /\ Len(chunks) = 1
    /\ chunks[1].chunk_index = 0
    /\ chunks[1].chunk_text = text

InLargeBand(token_count) == LargeCardMin <= token_count /\ token_count <= LargeCardMax

\* C22 as claimed: the list chunk_text returns carries the indices 0..n-1 in
\* list order, and when the passed-in token count is at most the target it is
\* the single chunk with index 0 and the whole normalized text.
C22_DenseAndWholeText ==
    ChunkTextReturned =>
        /\ DenseIndices(helper.result.chunks)
        /\ helper.token_count <= helper.target
            => SingleChunkOf(helper.result.chunks, normalize_text(helper.text))

\* C22 amended: the list chunk_text returns carries the indices 0..n-1 in list
\* order; when the passed-in token count is at most the target and lies
\* outside the large-card band 10,000..100,000, the list is the single chunk
\* with index 0 and the whole normalized text.
C22_DenseAndWholeTextOutsideBand ==
    ChunkTextReturned =>
        /\ DenseIndices(helper.result.chunks)
        /\ (helper.token_count <= helper.target /\ ~InLargeBand(helper.token_count))
            => SingleChunkOf(helper.result.chunks, normalize_text(helper.text))

\* the second heading section of a card is cut into sliding windows, numbered
\* on from the first section's
C22_Witness ==
    /\ ChunkTextReturned
    /\ helper.text = Headed
    /\ helper.target = 20
    /\ Len(helper.result.chunks) >= 4
    /\ helper.result.chunks[4].chunk_index = 3


SplitReturned ==
    /\ helper.pc = "returned"
    /\ helper.fn = "_sliding_window_split"

\* C23: for a token sequence of length L > 0 and 0 <= overlap < target, the
\* windows [s_i, e_i) of the sliding-window split have s_0 = 0,
\* e_i = min(s_i + target, L) and s_(i+1) = e_i - overlap, the last window ends
\* at L, every token position lies in a window, consecutive windows share
\* exactly overlap tokens, no window holds more than target tokens, and the
\* chunks are the decoded windows.
C23_WindowsCover ==
    (SplitReturned /\ Len(helper.tokens) > 0 /\ helper.overlap < helper.target) =>
        LET w == helper.windows
            L == Len(helper.tokens)
            n == Len(helper.windows)
        IN  /\ n >= 1
            /\ w[1][1] = 0
            /\ w[n][2] = L
            /\ \A i \in 1..n : w[i][2] = Min(w[i][1] + helper.target, L)
            /\ \A i \in 1..(n - 1) : w[i + 1][1] = w[i][2] - helper.overlap
            /\ \A pos \in 0..(L - 1) : \E i \in 1..n : w[i][1] <= pos /\ pos < w[i][2]
            /\ \A i \in 1..(n - 1) :
                   Cardinality({pos \in 0..(L - 1) :
                                   /\ w[i][1] <= pos /\ pos < w[i][2]
                                   /\ w[i + 1][1] <= pos /\ pos < w[i + 1][2]})
                       = helper.overlap
            /\ \A i \in 1..n : w[i][2] - w[i][1] <= helper.target
            /\ Len(helper.chunks) = n
            /\ \A i \in 1..n :
                   helper.chunks[i] = Decode(SubSeq(helper.tokens, w[i][1] + 1, w[i][2]))
            /\ helper.chunks = WindowsFrom(helper.tokens, 0, helper.target, helper.overlap)

\* three windows with an overlap of one token have covered seven tokens
C23_Witness ==
    /\ SplitReturned
    /\ Len(helper.tokens) = 7
    /\ helper.target = 3
    /\ helper.overlap = 1
    /\ helper.windows = << <<0, 3>>, <<2, 5>>, <<4, 7>> >>


\* C25: the sliding-window split terminates for every token sequence and every
\* pair of target and overlap, an overlap equal to or larger than the target
\* included: every pass of the loop that does not end it moves the start
\* position forward.
C25_StartIncreases ==
    [][(SplitPass /\ helper'.pc = "called") => helper'.start > helper.start]_vars


ExtractReturned ==
    /\ helper.pc = "returned"
    /\ helper.fn = "extract_key_sections"

\* the greedy pass as the claim describes it: a section that does not fit the
\* remaining budget is left out whole and the next one is tried
RECURSIVE AddEachThatFits(_, _, _)
AddEachThatFits(sections, acc, max_tokens) ==
    IF sections = <<>> THEN acc
    ELSE LET section_tokens == count_tokens(Head(sections).content)
         IN  AddEachThatFits(Tail(sections),
                 IF acc.total_tokens + section_tokens <= max_tokens
                 THEN [extracted |-> Append(acc.extracted, Head(sections).content),
                       total_tokens |-> acc.total_tokens + section_tokens]
                 ELSE acc,
                 max_tokens)

EveryFittingSection(sections, max_tokens) ==
    AddEachThatFits(SelectSections(sections, FALSE),
        AddEachThatFits(SelectSections(sections, TRUE),
            [extracted |-> <<>>, total_tokens |-> 0], max_tokens),
        max_tokens).extracted

\* C24: section extraction leaves out whole a section that would push the
\* running total over the budget and still considers the sections after it, so
\* its output is every section that fits the budget remaining when its turn
\* comes, whole, the key sections before the others (and the truncated text
\* when no section fits).
C24_LaterSectionsConsidered ==
    ExtractReturned =>
        helper.result =
            OrTruncated(Join(EveryFittingSection(
                                 SectionsFrom(Split(helper.text, LF), <<>>, FALSE),
                                 helper.max_tokens),
                             <<LF, LF>>),
                        helper.text, helper.max_tokens)


\* the number of tokens of a text, the special token counted as the encoder
\* counts it when it is allowed
TokensIn(text) == Len(Encode(text))

\* C26: every chunk that chunk_text emits has a text of at most chunk_target
\* tokens, whatever stored token count the caller passes in.
C26_ChunksWithinTarget ==
    ChunkTextReturned =>
        \A i \in 1..Len(helper.result.chunks) :
            TokensIn(helper.result.chunks[i].chunk_text) <= helper.target

-----------------------------------------------------------------------------
(* Properties of the stored chunks *)

\* the committed rows of one parent under one pair, in table order
RowsOfCard(rows, card_hash, pair) ==
    SelectSeq(rows, LAMBDA row : row.card_hash = card_hash /\ RowPair(row) = pair)

\* C27: after the chunking phase, for every canonical card that was chunked,
\* the rows stored under the current pair with the card's hash as parent have
\* exactly the indices and the texts of the list the chunker generated for it.
C27_StoredChunksAreGenerated ==
    LET pass == hist.chunking[Builder]
    IN  pass.known =>
            \A i \in 1..Len(pass.cards) :
                ~pass.results[i].failed =>
                    LET stored == RowsOfCard(card_chunks, pass.cards[i].card_hash,
                                             Pair(pass.config))
                        chunks == pass.results[i].chunks
                    IN  /\ Len(stored) = Len(chunks)
                        /\ \A k \in 1..Len(chunks) :
                               /\ stored[k].chunk_index = k - 1
                               /\ stored[k].chunk_index = chunks[k].chunk_index
                               /\ stored[k].chunk_text = chunks[k].chunk_text


\* C30: the chunking phase reads only records that are non-excluded at that
\* moment: no chunk row is created from the text of a record whose exclusion
\* flag is set.
C30_NoChunkOfExcludedRecord ==
    [][(st[Builder].pc = "chunking" /\ st'[Builder].pc = "embed") =>
          \A k \in (Len(card_chunks) + 1)..Len(card_chunks') :
              \A i \in 1..Len(hist'.chunking[Builder].cards) :
                  LET card == hist'.chunking[Builder].cards[i]
                  IN  card.card_hash = card_chunks'[k].card_hash
                          => ~model_cards[card.canonical_model_id].excluded_from_rag]_vars

-----------------------------------------------------------------------------
(* The search tools behind POST /api/v1/tools/{compute,k8s,hf}/search *)

ComputeTopK == 10                \* settings.compute_top_k
K8sTopK == 15                    \* settings.k8s_top_k
HfTopK == 5                      \* settings.hf_top_k
HfChunkTopK == 20                \* settings.hf_chunk_top_k
ComputeLimit == 100              \* "LIMIT 100" of the instance query
CardLimit == 20                  \* "LIMIT 20" of the card scores

MaxRows == 2                     \* rows of cloud.instances / packages the database answers with

\* the top_k of a request: the schemas declare a plain int
TopKs == {0, 1, 2, 3}

\* "top_k = top_k or settings.<tool>_top_k"
TopKOr(top_k, default) == IF top_k = 0 THEN default ELSE top_k

\* the rows of cloud.instances, provider "aws"
InstanceTableRows ==
    [provider : {<<97, 119, 115>>}, name : InstanceNames,
     gpu_count : {<<0>>, <<1>>}, gpu_memory_gb : {NullInt, <<40>>, <<80>>},
     price_monthly : {<<100>>, <<200>>}, available : BOOLEAN]

\* the WHERE clauses of a request that sets gpu_needed or nothing
InstanceMatches(row, gpu_needed) ==
    /\ gpu_needed = <<TRUE>> => Coalesce(row.gpu_count, 0) > 0
    /\ gpu_needed = <<FALSE>> => Coalesce(row.gpu_count, 0) = 0
    /\ row.available

\* the SELECT list: the row as the tool receives it
SelectedInstance(table, i) ==
    [id |-> i, provider |-> table[i].provider, name |-> table[i].name,
     gpu_count |-> Coalesce(table[i].gpu_count, 0),
     vram_gb |-> Coalesce(table[i].gpu_memory_gb, 0),
     price_monthly |-> Coalesce(table[i].price_monthly, 0)]

\* the places of the table's rows that the WHERE clause keeps
MatchingInstances(table, gpu_needed) ==
    SelectSeq([i \in 1..Len(table) |-> i],
              LAMBDA i : InstanceMatches(table[i], gpu_needed))

\* every order of n rows: a query without ORDER BY, or with ties in it
Orders(n) == {order \in [1..n -> 1..n] : \A i, j \in 1..n : order[i] = order[j] => i = j}

\* the return statement of the three tools
Response(ranked_results, top_k) ==
    [status |-> "ok",
     results |-> Slice(ranked_results, 0, top_k),
     metadata |-> [total_found |-> Len(ranked_results), top_k |-> top_k]]

\* search_compute_instances on the rows the database answers with, in the
\* order it answers
search_compute_instances(table, order, gpu_needed, top_k) ==
    LET matching == MatchingInstances(table, gpu_needed)
        results == Prefix([k \in 1..Len(matching) |->
                              SelectedInstance(table, matching[order[k]])],
                          ComputeLimit)
    IN  Response(rank_compute_instances(results, [gpu_needed |-> gpu_needed]).returned,
                 TopKOr(top_k, ComputeTopK))

\* search_k8s_packages on the rows the database answers with
search_k8s_packages(results, query, top_k) ==
    Response(rank_k8s_packages(results, query).returned, TopKOr(top_k, K8sTopK))

Respond(response) ==
    /\ search' = [search EXCEPT !.pc = "responded", !.response = response]
    /\ UNCHANGED <<models, model_cards, card_canon, model_to_card, card_chunks, st,
                   hist, ranking, helper>>

\* POST /api/v1/tools/compute/search
SearchCompute ==
    /\ search.pc = "requested"
    /\ search.tool = "compute"
    /\ \E order \in Orders(Len(MatchingInstances(search.table, search.gpu_needed))) :
           Respond(search_compute_instances(search.table, order, search.gpu_needed,
                                            search.top_k))

\* POST /api/v1/tools/k8s/search
SearchK8s ==
    /\ search.pc = "requested"
    /\ search.tool = "k8s"
    /\ Respond(search_k8s_packages(search.table, search.query, search.top_k))


HfChunkerVersion == "hf_chunker_v1"   \* settings.hf_chunker_version

\* m.model_id::text: "a", "b", ...
ModelName(m) == <<96 + m>>

\* "1 - (embedding <=> query)" in tenths: NULL for a NULL embedding; the query
\* lies at similarity 0.9 from every vector the embedding service answers with
Similarity(embedding) == IF embedding = NULL THEN NullInt ELSE <<9>>

\* ranked_chunks: the rows of the settings' pair, ORDER BY the distance
\* (ascending, so a NULL distance comes last), LIMIT chunk_top_k
RankedChunks(rows) ==
    LET of_pair == SelectSeq(rows, LAMBDA row :
                       /\ row.embedding_model_name = EmbedModel
                       /\ row.chunker_version = HfChunkerVersion)
        nearest == SelectSeq(of_pair, LAMBDA row : row.embedding # NULL)
                       \o SelectSeq(of_pair, LAMBDA row : row.embedding = NULL)
    IN  [k \in 1..Min(HfChunkTopK, Len(nearest)) |->
            [card_hash |-> nearest[k].card_hash,
             similarity |-> Similarity(nearest[k].embedding)]]

\* MAX(similarity) and AVG(similarity) of one card: NULL values are left out,
\* and the aggregate of no value is NULL
RECURSIVE SumOf(_)
SumOf(values) == IF values = <<>> THEN 0 ELSE Head(values) + SumOf(Tail(values))

MaxOf(values) == CHOOSE v \in {values[i] : i \in 1..Len(values)} :
                     \A i \in 1..Len(values) : values[i] <= v

\* one row of card_scores with its combined_similarity, in tenths
CardScore(ranked_chunks, card_hash) ==
    LET of_card == SelectSeq(ranked_chunks, LAMBDA chunk :
                       chunk.card_hash = card_hash /\ chunk.similarity # NullInt)
        values == [k \in 1..Len(of_card) |-> of_card[k].similarity[1]]
    IN  [card_hash |-> card_hash,
         combined_similarity |->
             IF values = <<>> THEN NullInt
             ELSE <<(7 * MaxOf(values) + 3 * (SumOf(values) \div Len(values))) \div 10>>]

\* the chunk search: ORDER BY combined_similarity DESC (NULL first), LIMIT 20
CardScores(ranked_chunks) ==
    LET scores == {CardScore(ranked_chunks, ranked_chunks[k].card_hash) :
                      k \in 1..Len(ranked_chunks)}
    IN  Prefix(SortByHash({s \in scores : s.combined_similarity = NullInt})
                   \o SortByHash({s \in scores : s.combined_similarity # NullInt}),
               CardLimit)

\* relevance_by_card
RelevanceByCard(card_scores) ==
    [h \in {card_scores[k].card_hash : k \in 1..Len(card_scores)} |->
        (CHOOSE s \in {card_scores[k] : k \in 1..Len(card_scores)} :
            s.card_hash = h).combined_similarity]

\* the models of the model query: hf.model_to_card JOIN hf.models
\* WHERE mtc.card_hash IN (card_hashes)
ModelsOfCards(to_card, card_hashes) ==
    SelectSeq([m \in 1..NumModels |-> m],
              LAMBDA m : m \in DOMAIN to_card /\ to_card[m] \in card_hashes)

\* one row of the model query
SelectedModel(to_card, popularity, m) ==
    [model_id |-> ModelName(m), likes |-> Coalesce(popularity[m].likes, 0),
     downloads |-> Coalesce(popularity[m].downloads, 0), card_hash |-> to_card[m]]

\* ORDER BY m.downloads DESC NULLS LAST: the orders the database may answer in
ModelOrders(popularity, found) ==
    {order \in Orders(Len(found)) :
        \A i, j \in 1..Len(found) :
            i < j => Coalesce(popularity[found[order[i]]].downloads, -1)
                        >= Coalesce(popularity[found[order[j]]].downloads, -1)}

\* "relevance_scores[model['model_id']] = relevance_by_card.get(card_hash, 0.0)"
RelevanceScores(model_rows, relevance_by_card) ==
    [id \in {model_rows[k].model_id : k \in 1..Len(model_rows)} |->
        LET row == CHOOSE r \in {model_rows[k] : k \in 1..Len(model_rows)} :
                       r.model_id = id
        IN  Get(relevance_by_card, row.card_hash, <<0>>)]

\* "0.6 * relevance" of rank_hf_models raises TypeError on a relevance of None
RankRaises(model_rows, relevance_scores) ==
    \E k \in 1..Len(model_rows) : relevance_scores[model_rows[k].model_id] = NullInt

\* search_hf_models on the index as it is, the model query answering in order
search_hf_models(rows, to_card, popularity, order, top_k) ==
    LET ranked_chunks == RankedChunks(rows)
        card_scores == CardScores(ranked_chunks)
        relevance_by_card == RelevanceByCard(card_scores)
        found == ModelsOfCards(to_card, DOMAIN relevance_by_card)
        model_rows == [k \in 1..Len(found) |->
                          SelectedModel(to_card, popularity, found[order[k]])]
        relevance_scores == RelevanceScores(model_rows, relevance_by_card)
    IN  [ranked_chunks |-> ranked_chunks,
         relevance_scores |-> relevance_scores,
         response |->
            IF card_scores = <<>> THEN Response(<<>>, TopKOr(top_k, HfTopK))
            ELSE IF RankRaises(model_rows, relevance_scores)
            THEN [status |-> "TypeError"]
            ELSE Response(rank_hf_models(model_rows,
                              [id \in DOMAIN relevance_scores |->
                                  relevance_scores[id][1]]).returned,
                          TopKOr(top_k, HfTopK))]

\* POST /api/v1/tools/hf/search
SearchHf ==
    /\ search.pc = "requested"
    /\ search.tool = "hf"
    /\ \E order \in ModelOrders(models,
                     ModelsOfCards(model_to_card,
                         DOMAIN RelevanceByCard(CardScores(RankedChunks(card_chunks))))) :
           LET outcome == search_hf_models(card_chunks, model_to_card, models, order,
                                           search.top_k)
           IN  search' = [search EXCEPT !.pc = "responded",
                                        !.response = outcome.response,
                                        !.ranked_chunks = outcome.ranked_chunks,
                                        !.relevance_scores = outcome.relevance_scores]
    /\ UNCHANGED <<models, model_cards, card_canon, model_to_card, card_chunks, st,
                   hist, ranking, helper>>

\* the cards the Hub serves while a model search is waiting
SearchTexts == {Plain, Headed}

\* the popularity of a model: none, or 1023 downloads
SearchPopularityRows ==
    {[downloads |-> NullInt, likes |-> NullInt], [downloads |-> <<1023>>, likes |-> <<0>>]}

\* One request: its tool, its top_k and, for the instance and the package
\* search, the rows of the table
InitSearch ==
    /\ model_cards = [m \in ModelIds |-> NoCard]
    /\ card_canon = <<>>
    /\ model_to_card = <<>>
    /\ card_chunks = <<>>
    /\ st = [p \in Procs |-> Idle]
    /\ hist = [edits |-> 0, quiet |-> FALSE, kills |-> 0,
               call |-> [p \in Procs |-> NoCall],
               chunking |-> [p \in Procs |-> NoChunking],
               phase |-> [p \in Procs |-> NoPhase],
               previous |-> [p \in Procs |-> NoPhase]]
    /\ ranking = NoRanking
    /\ helper = NoHelper
    /\ \E top_k \in TopKs :
        \/ /\ models = [m \in ModelIds |-> [downloads |-> <<1023>>, likes |-> <<0>>]]
           /\ \E n \in 0..MaxRows :
                \/ \E table \in [1..n -> InstanceTableRows],
                      gpu_needed \in {<<>>, <<TRUE>>} :
                        search = [pc |-> "requested", tool |-> "compute",
                                  top_k |-> top_k, gpu_needed |-> gpu_needed,
                                  table |-> table, response |-> [status |-> "none"]]
                \/ \E packages \in [1..n -> PackageRows], query \in Queries :
                        search = [pc |-> "requested", tool |-> "k8s",
                                  top_k |-> top_k, query |-> query,
                                  table |-> Numbered(packages, "package_id"),
                                  response |-> [status |-> "none"]]
        \/ /\ models \in [ModelIds -> SearchPopularityRows]
           /\ search = [pc |-> "requested", tool |-> "hf", top_k |-> top_k,
                        ranked_chunks |-> <<>>, relevance_scores |-> <<>>,
                        response |-> [status |-> "none"]]

HfRequested == search.pc = "requested" /\ search.tool = "hf"

NextSearch ==
    \/ SearchCompute
    \/ SearchK8s
    \/ SearchHf
    \/ HfRequested /\ \E m \in ModelIds, text \in SearchTexts : Ingest(m, text)
    \/ HfRequested /\ BuilderMain(DefaultConfig)
    \/ HfRequested /\ StepA
    \/ HfRequested /\ StepB
    \/ HfRequested /\ StepC
    \/ HfRequested /\ EmbedSelect(Builder)
    \/ HfRequested /\ EmbedOk(Builder, "e1")

SpecSearch == InitSearch /\ [][NextSearch]_vars

-----------------------------------------------------------------------------
(* Properties of the search tools *)

Responded == search.pc = "responded" /\ search.response.status = "ok"

\* C21: for every request in each of the three domains and every top_k the
\* schema accepts, 0 included, a response holds exactly
\* min(top_k, total_found) results, these are the candidates ranked
\* 1..len(results) in rank order, and metadata.top_k is the requested top_k.
C21_ResultCount ==
    Responded =>
        LET results == search.response.results
            metadata == search.response.metadata
        IN  /\ Len(results) = Min(search.top_k, metadata.total_found)
            /\ \A i \in 1..Len(results) : results[i].rank = i
            /\ metadata.top_k = search.top_k

\* C28: a model search never uses a chunk with a NULL embedding: every chunk
\* among the top-N has a similarity, and every relevance score handed to the
\* model ranking is a number.
C28_NoPendingChunkInSearch ==
    (search.pc = "responded" /\ search.tool = "hf") =>
        /\ \A k \in 1..Len(search.ranked_chunks) :
               search.ranked_chunks[k].similarity # NullInt
        /\ \A id \in DOMAIN search.relevance_scores :
               search.relevance_scores[id] # NullInt

\* C29: of two instances that search_compute_instances returns with the same
\* monthly price, the one with more GPU memory has the smaller rank.
C29_MoreMemoryFirst ==
    (Responded /\ search.tool = "compute") =>
        \A i, j \in 1..Len(search.response.results) :
            LET a == search.response.results[i]
                b == search.response.results[j]
            IN  (a.price_monthly = b.price_monthly /\ a.vram_gb > b.vram_gb)
                    => a.rank < b.rank

=============================================================================
